---- MODULE Spec2Model ----
(***************************************************************************)
(* FlaskMag: incremental PDF text cache, prefilter index and keyword       *)
(* search (flask_stream13.py, with the differing handlers of               *)
(* flask_stream_network.py).                                               *)
(*                                                                         *)
(* Strings are sequences of one-character strings.  A behaviour is a       *)
(* sequence of runs of main() in one Streamlit server process, interleaved *)
(* with external changes of the document directories and with process      *)
(* crashes.                                                                *)
(***************************************************************************)
EXTENDS Integers, Sequences, FiniteSets, TLC

\* ------------------------------------------------------------------ bounds
MaxTime == 2
MaxEnv == 1
MaxRuns == 2
MaxCrash == 1
CpuCount == 2
MaxPad == 152
MaxPages == 21

\* ------------------------------------------------------- program constants
CONTEXT_CHARS == 150
WorkerCap == 12
PARALLEL_PAGES == 20
PAGE_WORKERS == 4
NETWORK_RETRY_COUNT == 3
NETWORK_RETRY_DELAY == 2

Min(a, b) == IF a < b THEN a ELSE b
Max(a, b) == IF a > b THEN a ELSE b

MAX_WORKERS == Min(CpuCount, WorkerCap)

\* The configured roots, in configuration order.
PDF_DIRECTORIES == <<1, 2>>

Roots == {PDF_DIRECTORIES[i] : i \in 1..Len(PDF_DIRECTORIES)}

\* File names that can occur in a root, in the order a listing returns them.
ListingOrder == <<"a.pdf", "b.pdf", "n.txt">>

FileNames == {ListingOrder[i] : i \in 1..Len(ListingOrder)}

\* filename.lower().endswith('.pdf')
IsPdfName(f) == f \in {"a.pdf", "b.pdf"}

PdfNames == {f \in FileNames : IsPdfName(f)}

\* os.path.join(pdf_dir, f)
PathJoin(d, f) == [dir |-> d, name |-> f]

\* os.path.basename(path)
Basename(p) == p.name

\* The places where a file can exist: a.pdf in both roots, the rest in root 1.
Paths == {PathJoin(1, "a.pdf"), PathJoin(2, "a.pdf"), PathJoin(1, "b.pdf"),
          PathJoin(1, "n.txt")}

PdfPaths == {p \in Paths : IsPdfName(p.name)}

NoPath == [dir |-> 0, name |-> ""]

\* ----------------------------------------------------------------- strings
WhiteSpace == {" ", "\n", "\t"}

LowerChar(c) == CASE c = "A" -> "a" [] c = "B" -> "b" [] OTHER -> c

\* The characters U+0130 (capital I with dot above) and U+0307 (combining dot
\* above), each one character of a text.
DottedI == "U+0130"

CombiningDot == "U+0307"

\* str.lower() of one character: U+0130 becomes the two characters i, U+0307
LowerSeq(c) == IF c = DottedI THEN <<"i", CombiningDot>> ELSE <<LowerChar(c)>>

\* str.lower(): the lowered characters, concatenated (by halves)
RECURSIVE Lower(_)
Lower(s) ==
    IF s = <<>> THEN <<>>
    ELSE IF Len(s) = 1 THEN LowerSeq(s[1])
    ELSE LET h == Len(s) \div 2
         IN  Lower(SubSeq(s, 1, h)) \o Lower(SubSeq(s, h + 1, Len(s)))

RECURSIVE LStrip(_)
LStrip(s) ==
    IF s # <<>> /\ s[1] \in WhiteSpace THEN LStrip(Tail(s)) ELSE s

RECURSIVE RStrip(_)
RStrip(s) ==
    IF s # <<>> /\ s[Len(s)] \in WhiteSpace
    THEN RStrip(SubSeq(s, 1, Len(s) - 1)) ELSE s

\* str.strip()
Strip(s) == RStrip(LStrip(s))

\* re.sub(r'\s+', ' ', text): every maximal run of whitespace becomes one space
RECURSIVE CollapseWs(_)
CollapseWs(s) ==
    IF s = <<>> THEN <<>>
    ELSE IF s[1] \in WhiteSpace
         THEN <<" ">> \o CollapseWs(LStrip(s))
         ELSE <<s[1]>> \o CollapseWs(Tail(s))

\* needle in haystack
Contains(hay, needle) ==
    \E i \in 0..(Len(hay) - Len(needle)) :
        SubSeq(hay, i + 1, i + Len(needle)) = needle

\* ' '.join(pages)
RECURSIVE JoinPages(_)
JoinPages(pages) ==
    IF pages = <<>> THEN <<>>
    ELSE IF Len(pages) = 1 THEN pages[1]
    ELSE pages[1] \o <<" ">> \o JoinPages(Tail(pages))

\* --------------------------------------------------------------- documents
\* A raw page as the PDF library sees it: extract_text() raises, or returns
\* the text (the empty text stands for None as well).
RawPage(t) == [fault |-> FALSE, text |-> t]

FaultPage == [fault |-> TRUE, text |-> <<>>]

BodyIds == {"B1", "B2", "B3", "BLONG", "BEDGE", "BAD"}

\* A document of n pages: "b", "", "a b a", "b", "", "a b a", ...
LongPages(n) ==
    [i \in 1..n |-> CASE i % 3 = 1 -> <<"b">>
                      [] i % 3 = 2 -> <<>>
                      [] OTHER -> <<"a", " ", "b", " ", "a">>]

\* The pages of a document body; "BAD" is a file pdfplumber cannot open,
\* "BLONG" a document of MaxPages pages, "BEDGE" one of PARALLEL_PAGES pages.
RawPages(b) ==
    CASE b = "B1" -> <<RawPage(<<"A", " ", "b">>), RawPage(<<"b">>)>>
      [] b = "BLONG" -> [i \in 1..MaxPages |-> RawPage(LongPages(MaxPages)[i])]
      [] b = "BEDGE" -> [i \in 1..PARALLEL_PAGES |->
                            RawPage(LongPages(PARALLEL_PAGES)[i])]
      [] b = "B2" -> <<RawPage(<<" ", "b", " ", "\n", "a">>)>>
      [] b = "B3" -> <<FaultPage, RawPage(<<"a", "A">>)>>
      [] OTHER -> <<>>

\* The bodies an external write can give a path.
WriteBodies(p) ==
    CASE p = PathJoin(1, "a.pdf") -> {"B1", "BAD"}
      [] p = PathJoin(2, "a.pdf") -> {"B2", "B3"}
      [] OTHER -> {"B3", "B1"}

NoFile == [exists |-> FALSE, mtime |-> 0, body |-> "BAD"]

FileRec(t, b) == [exists |-> TRUE, mtime |-> t, body |-> b]

\* ------------------------------------------------------------- cache store
\* pdf_cache: a dict filename -> pages with the reserved key '_metadata'.
\* keys is the insertion order of the filenames.  srcPath, srcMtime, srcBody
\* and writtenAt record which file version the pages were read from and when
\* they were stored (history only, never read by the code).
NoEntry == [present |-> FALSE, pages |-> <<>>,
            srcPath |-> NoPath, srcMtime |-> 0, srcBody |-> "BAD", writtenAt |-> 0]

NoMeta == [present |-> FALSE, mtime |-> 0, processed_at |-> 0, srcPath |-> NoPath]

EmptyStore == [keys |-> <<>>,
               entry |-> [n \in PdfNames |-> NoEntry],
               hasMeta |-> FALSE,
               meta |-> [n \in PdfNames |-> NoMeta]]

\* file_name in pdf_cache
InStore(store, n) == n \in PdfNames /\ store.entry[n].present

\* bool(pdf_cache)
StoreTruthy(store) == store.keys # <<>> \/ store.hasMeta

\* pdf_cache[file_name] = text_pages
SetPages(store, n, pages, p, t, b, at) ==
    [store EXCEPT
        !.keys = IF store.entry[n].present THEN @ ELSE Append(@, n),
        !.entry[n] = [present |-> TRUE, pages |-> pages,
                      srcPath |-> p, srcMtime |-> t, srcBody |-> b,
                      writtenAt |-> at]]

\* pdf_cache['_metadata'][file_name] = {'mtime': ..., 'processed_at': ...}
SetMeta(store, n, t, at, p) ==
    [store EXCEPT
        !.meta[n] = [present |-> TRUE, mtime |-> t, processed_at |-> at,
                     srcPath |-> p]]

\* cache_metadata.get(file_name, {}).get('mtime', 0)
CachedMtime(store, n) ==
    IF store.hasMeta /\ store.meta[n].present THEN store.meta[n].mtime ELSE 0

\* ------------------------------------------------------------------- state
VARIABLES
    disk,              \* path -> file (existence, mtime, body)
    dirs,              \* root -> "ok" | "denied" | "missing"
    envLeft,           \* external events still allowed
    cacheFile,         \* pdf_cache.pkl: kind "absent" | "ok" | "partial" | "damaged"
    indexDb,           \* text_index.db: state "absent" | "notable" | "ok"
    memo,              \* st.cache_data memo of load_cached_data
    pc,                \* position of the script run
    runs,              \* script runs started
    crashes,           \* process crashes so far
    file_path_cache,   \* _file_path_cache: filename -> path
    pdf_files,         \* result of get_all_pdf_files
    pdf_cache,         \* the in-memory cache store
    files_to_process,  \* the batch
    tasks,             \* path -> extraction future
    batchEnv,          \* envLeft when the batch was submitted (history only)
    aborted,           \* where the last run ended with an uncaught exception
    keyword,           \* the keyword of the last search
    results,           \* the MatchRecords of the last search
    file_groups,       \* the groups shown: <<[file, items]>> in key order
    index_queried,     \* the last search asked the prefilter (history only)
    cand_left,         \* a search in steps: the candidates not yet scanned
    page_tasks,        \* a search in steps: the futures of the page pool
    retry,             \* network edition: a call of retry_network_operation
    session            \* secure edition: st.session_state of each session

\* The variables of the search in progress and of its display.
scanVars == <<file_groups, index_queried, cand_left, page_tasks>>

\* The state that only the network and the secure edition have; no step of
\* the main() of flask_stream13.py and no external event changes it.
editionVars == <<retry, session>>

vars == <<disk, dirs, envLeft, cacheFile, indexDb, memo, pc, runs, crashes,
          file_path_cache, pdf_files, pdf_cache, files_to_process, tasks,
          batchEnv, aborted, keyword, results, scanVars, editionVars>>

\* What the steps of a run leave alone.
envVars == <<disk, dirs, envLeft, editionVars>>

\* What an external event leaves alone.
memVars == <<file_path_cache, pdf_files, pdf_cache, files_to_process, tasks,
             batchEnv, keyword, results, scanVars, editionVars>>

NoTask == [st |-> "none", pages |-> <<>>, readMtime |-> 0, readBody |-> "BAD"]

\* No call of retry_network_operation is in progress.
NoRetry == [pc |-> "none", op |-> "none", path |-> NoPath, attempt |-> 0,
            log |-> <<>>, waits |-> <<>>, result |-> <<>>, error |-> <<>>]

\* No session has run the script yet.
NoSession == [cur |-> 0, flags |-> <<>>, form |-> <<>>]

InitEdition ==
    /\ retry = NoRetry
    /\ session = NoSession

NoLocator == [n \in PdfNames |-> NoPath]

\* ------------------------------------------------------------- file system
\* os.path.exists(pdf_dir)
DirExists(r) == dirs[r] # "missing"

\* os.listdir(pdf_dir) succeeds
DirListable(r) == dirs[r] = "ok"

\* os.listdir(pdf_dir)
ListDir(r) ==
    SelectSeq(ListingOrder,
              LAMBDA f : PathJoin(r, f) \in Paths /\ disk[PathJoin(r, f)].exists)

\* [os.path.join(pdf_dir, f) for f in os.listdir(pdf_dir) if f.lower().endswith(".pdf")]
PdfsOfDir(r) ==
    LET names == SelectSeq(ListDir(r), IsPdfName)
    IN  [i \in 1..Len(names) |-> PathJoin(r, names[i])]

\* os.path.getmtime(file_path) succeeds
StatOk(p) == disk[p].exists

\* os.path.getmtime(file_path)
get_file_modification_time(p) == disk[p].mtime

\* ----------------------------------------------------------------- locator
\* Variant: a filename that is already mapped keeps its first path.
RECURSIVE PutAll_KeepFirst(_, _, _)
PutAll_KeepFirst(cache, r, names) ==
    IF names = <<>> THEN cache
    ELSE PutAll_KeepFirst(IF IsPdfName(names[1]) /\ cache[names[1]] = NoPath
                          THEN [cache EXCEPT ![names[1]] = PathJoin(r, names[1])]
                          ELSE cache,
                          r, Tail(names))

\* for filename in os.listdir(pdf_dir): if ...endswith('.pdf'): cache[filename] = ...
RECURSIVE PutAll(_, _, _)
PutAll(cache, r, names) ==
    IF names = <<>> THEN cache
    ELSE PutAll(IF IsPdfName(names[1])
                THEN [cache EXCEPT ![names[1]] = PathJoin(r, names[1])]
                ELSE cache,
                r, Tail(names))

RECURSIVE BuildFrom(_, _)
BuildFrom(i, cache) ==
    IF i > Len(PDF_DIRECTORIES) THEN cache
    ELSE LET r == PDF_DIRECTORIES[i]
         IN  IF ~DirExists(r) THEN BuildFrom(i + 1, cache)
             ELSE IF ~DirListable(r) THEN BuildFrom(i + 1, cache)
             ELSE BuildFrom(i + 1, PutAll(cache, r, ListDir(r)))

build_file_path_cache == BuildFrom(1, NoLocator)

\* _file_path_cache.get(filename) or _file_path_cache.get(os.path.basename(filename))
get_pdf_path(filename) ==
    IF filename \in PdfNames THEN file_path_cache[filename] ELSE NoPath

\* bool(_file_path_cache)
LocatorTruthy(cache) == \E n \in PdfNames : cache[n] # NoPath

\* -------------------------------------------------------------------- scan
RECURSIVE ScanFrom(_, _)
ScanFrom(i, acc) ==
    IF i > Len(PDF_DIRECTORIES) THEN [ok |-> TRUE, files |-> acc]
    ELSE LET r == PDF_DIRECTORIES[i]
         IN  IF ~DirExists(r) THEN ScanFrom(i + 1, acc)
             ELSE IF ~DirListable(r) THEN [ok |-> FALSE, files |-> <<>>]
             ELSE ScanFrom(i + 1, acc \o PdfsOfDir(r))

get_all_pdf_files == ScanFrom(1, <<>>)

\* --------------------------------------------------------------- staleness
\* Variant: an equal modification time counts as newer.
IsNewer_AtLeast(current_mtime, cached_mtime) == current_mtime >= cached_mtime

\* current_mtime > cached_mtime
IsNewer(current_mtime, cached_mtime) == current_mtime > cached_mtime

RECURSIVE CheckFrom(_, _, _)
CheckFrom(files, store, acc) ==
    IF files = <<>> THEN [ok |-> TRUE, files |-> acc]
    ELSE LET p == files[1]
         IN  IF ~StatOk(p) THEN [ok |-> FALSE, files |-> <<>>]
             ELSE CheckFrom(Tail(files), store,
                    IF IsNewer(get_file_modification_time(p),
                               CachedMtime(store, Basename(p)))
                    THEN Append(acc, p) ELSE acc)

check_for_updates(files, store) == CheckFrom(files, store, <<>>)

\* The network edition skips a file whose modification time cannot be read.
RECURSIVE CheckFromNetwork(_, _, _)
CheckFromNetwork(files, store, acc) ==
    IF files = <<>> THEN [ok |-> TRUE, files |-> acc]
    ELSE LET p == files[1]
         IN  IF ~StatOk(p) THEN CheckFromNetwork(Tail(files), store, acc)
             ELSE CheckFromNetwork(Tail(files), store,
                    IF IsNewer(get_file_modification_time(p),
                               CachedMtime(store, Basename(p)))
                    THEN Append(acc, p) ELSE acc)

check_for_updates_network(files, store) == CheckFromNetwork(files, store, <<>>)

SeqToSet(s) == {s[i] : i \in 1..Len(s)}

\* new_files = [f for f in pdf_files if os.path.basename(f) not in pdf_cache]
NewFiles(files, store) ==
    SelectSeq(files, LAMBDA p : ~InStore(store, Basename(p)))

\* list(set(files_to_process + new_files))
FilesToProcess(updated, files, store) ==
    SeqToSet(updated) \cup SeqToSet(NewFiles(files, store))

\* -------------------------------------------------------------- extraction
\* One page of extract_pdf_text_pdfplumber.
ExtractPage(raw) ==
    IF raw.fault THEN <<>>
    ELSE IF raw.text = <<>> THEN <<>>
    ELSE CollapseWs(Strip(raw.text))

\* pdfplumber.open(pdf_path) succeeds
Openable(p) == disk[p].exists /\ disk[p].body # "BAD"

\* Variant: a page whose extraction raises is left out of the result.
extract_DropFaulted(p) ==
    IF ~Openable(p) THEN <<>>
    ELSE LET raw == SelectSeq(RawPages(disk[p].body), LAMBDA r : ~r.fault)
         IN  [i \in 1..Len(raw) |-> ExtractPage(raw[i])]

extract_pdf_text_pdfplumber(p) ==
    IF ~Openable(p) THEN <<>>
    ELSE LET raw == RawPages(disk[p].body)
         IN  [i \in 1..Len(raw) |-> ExtractPage(raw[i])]

\* --------------------------------------------------------- prefilter index
\* replaced holds the rows the last rebuild deleted (history only).
AbsentDb == [state |-> "absent", rows |-> <<>>, replaced |-> <<>>]

\* The database file exists and has no table text_index.
NoTableDb == [state |-> "notable", rows |-> <<>>, replaced |-> <<>>]

\* full_text = ' '.join(pages).lower(); page_count = len(pages)
IndexRow(store, n) ==
    [filename |-> n,
     full_text |-> Lower(JoinPages(store.entry[n].pages)),
     page_count |-> Len(store.entry[n].pages)]

\* The rows create_text_index_db inserts, in pdf_cache.items() order.
IndexRows(store) == [i \in 1..Len(store.keys) |-> IndexRow(store, store.keys[i])]

\* SQLite's LIKE: '%' matches any run, '_' any one character, letters
\* compare without case.
RECURSIVE Like(_, _)
Like(pat, txt) ==
    IF pat = <<>> THEN txt = <<>>
    ELSE IF pat[1] = "%"
         THEN \E k \in 0..Len(txt) : Like(Tail(pat), SubSeq(txt, k + 1, Len(txt)))
    ELSE IF txt = <<>> THEN FALSE
    ELSE IF pat[1] = "_" \/ LowerChar(pat[1]) = LowerChar(txt[1])
         THEN Like(Tail(pat), Tail(txt))
    ELSE FALSE

\* Variant: the pattern has no leading '%', so it matches at the start only.
LikePattern_Anchored(kw) == Lower(kw) \o <<"%">>

\* keyword_pattern = f'%{keyword.lower()}%'
LikePattern(kw) == <<"%">> \o Lower(kw) \o <<"%">>

\* search_text_index against a given database file
QueryIndex(db, kw) ==
    IF db.state = "absent" THEN [avail |-> FALSE, files |-> <<>>]
    ELSE IF db.state = "notable" THEN [avail |-> FALSE, files |-> <<>>]
    ELSE LET hit == SelectSeq(db.rows,
                        LAMBDA row : Like(LikePattern(kw), row.full_text))
         IN  [avail |-> TRUE, files |-> [i \in 1..Len(hit) |-> hit[i].filename]]

search_text_index(kw) == QueryIndex(indexDb, kw)

\* ------------------------------------------------------------------ search
\* [m.start() for m in pattern.finditer(text_lower)]: 0-based starts of the
\* non-overlapping occurrences, left to right
RECURSIVE FindIter(_, _, _)
FindIter(hay, needle, from) ==
    LET found == {i \in from..(Len(hay) - Len(needle)) :
                     SubSeq(hay, i + 1, i + Len(needle)) = needle}
    IN  IF found = {} THEN <<>>
        ELSE LET m == CHOOSE i \in found : \A k \in found : i <= k
             IN  <<m>> \o FindIter(hay, needle, m + Max(Len(needle), 1))

\* while context_start > 0 and original_text[context_start] not in ' \n\t'
\* (the first index downwards from start that is 0 or holds whitespace)
SnapStart(text, start) ==
    LET stops == {i \in 0..start : i = 0 \/ text[i + 1] \in WhiteSpace}
    IN  CHOOSE i \in stops : \A k \in stops : k <= i

\* while context_end < len(original_text) and original_text[context_end] not in ' \n\t'
\* (the first index upwards from end that is len(text) or holds whitespace)
SnapEnd(text, end) ==
    LET stops == {i \in end..Len(text) : i = Len(text) \/ text[i + 1] \in WhiteSpace}
    IN  CHOOSE i \in stops : \A k \in stops : i <= k

MarkOpen == <<"[">>

MarkClose == <<"]">>

\* re.sub(f"({re.escape(keyword)})", r"<span ...>\1</span>", context, flags=re.IGNORECASE)
RECURSIVE Highlight(_, _)
Highlight(context, kw) ==
    LET found == IF Len(kw) = 0 THEN {}
                 ELSE {i \in 0..(Len(context) - Len(kw)) :
                          Lower(SubSeq(context, i + 1, i + Len(kw))) = Lower(kw)}
    IN  IF found = {} THEN context
        ELSE LET m == CHOOSE i \in found : \A k \in found : i <= k
             IN  SubSeq(context, 1, m)
                 \o MarkOpen \o SubSeq(context, m + 1, m + Len(kw)) \o MarkClose
                 \o Highlight(SubSeq(context, m + Len(kw) + 1, Len(context)), kw)

\* original_text[context_start] raises IndexError: the position was found in
\* text.lower(), which is longer than the text when it holds U+0130
WindowRaises(text, pos) ==
    pos - CONTEXT_CHARS > 0 /\ pos - CONTEXT_CHARS >= Len(text)

\* The context of the occurrence at 0-based position pos.
ContextAt(kw, text, pos) ==
    LET context_start == SnapStart(text, Max(0, pos - CONTEXT_CHARS))
        context_end == SnapEnd(text, Min(Len(text), pos + Len(kw) + CONTEXT_CHARS))
    IN  Highlight(Strip(SubSeq(text, context_start + 1, context_end)), kw)

search_with_context(kw, text) ==
    LET matches == FindIter(Lower(text), Lower(kw), 0)
    IN  [i \in 1..Len(matches) |-> ContextAt(kw, text, matches[i])]

\* search_with_context(kw, text, text) raises
ContextRaises(kw, text) ==
    LET matches == FindIter(Lower(text), Lower(kw), 0)
    IN  \E i \in 1..Len(matches) : WindowRaises(text, matches[i])

\* search_single_page((page_number, page_text)), page_number 0-based
search_single_page(pdf_file, page_number, page_text, kw) ==
    IF ~Contains(Lower(page_text), Lower(kw)) THEN <<>>
    ELSE LET contexts == search_with_context(kw, page_text)
         IN  [i \in 1..Len(contexts) |->
                 [file |-> pdf_file,
                  page_number |-> page_number + 1,
                  context |-> contexts[i],
                  full_text |-> page_text,
                  full_path |-> get_pdf_path(pdf_file)]]

\* for i, page_text in enumerate(pages): page_results.extend(...)
RECURSIVE ScanPages(_, _, _, _)
ScanPages(pdf_file, pages, kw, i) ==
    IF i > Len(pages) THEN <<>>
    ELSE search_single_page(pdf_file, i - 1, pages[i], kw)
         \o ScanPages(pdf_file, pages, kw, i + 1)

RECURSIVE Flatten(_)
Flatten(lists) ==
    IF lists = <<>> THEN <<>> ELSE lists[1] \o Flatten(Tail(lists))

\* Variant: the page results are taken in the reverse of the input order.
MapPages_Reversed(pdf_file, pages, kw) ==
    Flatten([i \in 1..Len(pages) |->
                search_single_page(pdf_file, Len(pages) - i, pages[Len(pages) + 1 - i], kw)])

\* executor.map(search_single_page, enumerate(pages)) yields in input order
MapPages(pdf_file, pages, kw) ==
    Flatten([i \in 1..Len(pages) |->
                search_single_page(pdf_file, i - 1, pages[i], kw)])

\* Variant: a document of exactly PARALLEL_PAGES pages goes to the pool too.
UsesPool_AtLeast(pages) == Len(pages) >= PARALLEL_PAGES

\* if len(pages) > 20
UsesPool(pages) == Len(pages) > PARALLEL_PAGES

search_pages_parallel(pdf_file, pages, kw) ==
    IF UsesPool(pages)
    THEN MapPages(pdf_file, pages, kw)
    ELSE ScanPages(pdf_file, pages, kw, 1)

\* candidate_files = [k for k in pdf_cache.keys() if k != '_metadata']
AllFilenames(store) == store.keys

\* Variant: an unavailable prefilter is taken as an empty candidate list.
Candidates_NoFallback(answer, store) == answer.files

\* The candidates smart_search scans for an index answer.
Candidates(answer, store) ==
    IF answer.avail THEN answer.files ELSE AllFilenames(store)

RECURSIVE SearchFiles(_, _, _)
SearchFiles(cands, store, kw) ==
    IF cands = <<>> THEN <<>>
    ELSE (IF ~InStore(store, cands[1]) THEN <<>>
          ELSE search_pages_parallel(cands[1], store.entry[cands[1]].pages, kw))
         \o SearchFiles(Tail(cands), store, kw)

\* Variant: an empty keyword is searched like any other.
smart_search_NoBlankCheck(kw, store) ==
    SearchFiles(Candidates(search_text_index(Strip(kw)), store), store, Strip(kw))

smart_search(kw, store) ==
    IF Strip(kw) = <<>> THEN <<>>
    ELSE SearchFiles(Candidates(search_text_index(Strip(kw)), store),
                     store, Strip(kw))

\* smart_search(kw, store) calls search_text_index
QueriesIndex(kw) == Strip(kw) # <<>>

\* smart_search(kw, store) raises: a page of a candidate does
SmartSearchRaises(kw, store) ==
    /\ Strip(kw) # <<>>
    /\ \E n \in SeqToSet(Candidates(search_text_index(Strip(kw)), store)) :
          /\ InStore(store, n)
          /\ \E i \in 1..Len(store.entry[n].pages) :
                /\ Contains(Lower(store.entry[n].pages[i]), Lower(Strip(kw)))
                /\ ContextRaises(Strip(kw), store.entry[n].pages[i])

\* ---------------------------------------------------------------- results
\* The keys of file_groups: the files of the records, in order of first
\* appearance (a dict keeps insertion order).
RECURSIVE FirstAppearance(_, _)
FirstAppearance(recs, seen) ==
    IF recs = <<>> THEN <<>>
    ELSE IF recs[1].file \in seen THEN FirstAppearance(Tail(recs), seen)
    ELSE <<recs[1].file>> \o FirstAppearance(Tail(recs), seen \cup {recs[1].file})

\* file_groups[f]: the records of file f, in the order of the input
GroupOf(recs, f) == SelectSeq(recs, LAMBDA r : r.file = f)

\* Variant: a group goes before the groups of its own size.
InsertBySize_BeforeEqual(sorted, g) ==
    LET before == SelectSeq(sorted, LAMBDA h : Len(h.items) > Len(g.items))
        after == SelectSeq(sorted, LAMBDA h : Len(h.items) <= Len(g.items))
    IN  before \o <<g>> \o after

\* One step of the stable sort by descending size: g, which is later in the
\* input than every group of sorted, goes behind the groups of its own size.
InsertBySize(sorted, g) ==
    LET before == SelectSeq(sorted, LAMBDA h : Len(h.items) >= Len(g.items))
        after == SelectSeq(sorted, LAMBDA h : Len(h.items) < Len(g.items))
    IN  before \o <<g>> \o after

\* sorted(file_groups.items(), key=lambda x: len(x[1]), reverse=True)
RECURSIVE SortedBySize(_)
SortedBySize(groups) ==
    IF groups = <<>> THEN <<>>
    ELSE InsertBySize(SortedBySize(SubSeq(groups, 1, Len(groups) - 1)),
                      groups[Len(groups)])

group_results_by_file(recs) ==
    LET keys == FirstAppearance(recs, {})
    IN  SortedBySize([i \in 1..Len(keys) |->
                         [file |-> keys[i], items |-> GroupOf(recs, keys[i])]])

\* ---------------------------------------------------------------- initial
Keywords == {<<>>, <<" ">>, <<"a">>, <<"B">>, <<" ", "a", " ">>, <<"b", " ", "a">>}

InitDisk ==
    [p \in Paths |->
        CASE p = PathJoin(1, "a.pdf") -> FileRec(1, "B1")
          [] p = PathJoin(2, "a.pdf") -> FileRec(1, "B2")
          [] p = PathJoin(1, "b.pdf") -> FileRec(2, "B3")
          [] OTHER -> FileRec(1, "BAD")]

NoTasks == [p \in PdfPaths |-> NoTask]

NoMemo == [set |-> FALSE, store |-> EmptyStore]

\* prev is the store a truncated file held before, batch the batch whose
\* result the file holds (history only).
AbsentCache == [kind |-> "absent", store |-> EmptyStore, prev |-> EmptyStore,
                batch |-> {}]

Init ==
    /\ disk = InitDisk
    /\ dirs = [r \in Roots |-> "ok"]
    /\ envLeft = MaxEnv
    /\ cacheFile = AbsentCache
    /\ indexDb = AbsentDb
    /\ memo = NoMemo
    /\ pc = "idle"
    /\ runs = 0
    /\ crashes = 0
    /\ file_path_cache = NoLocator
    /\ pdf_files = <<>>
    /\ pdf_cache = EmptyStore
    /\ files_to_process = {}
    /\ tasks = NoTasks
    /\ batchEnv = 0
    /\ aborted = "none"
    /\ keyword = <<>>
    /\ results = <<>>
    /\ file_groups = <<>>
    /\ index_queried = FALSE
    /\ cand_left = <<>>
    /\ page_tasks = <<>>
    /\ InitEdition

\* The script's namespace is discarded when a run ends.
ResetMem ==
    /\ file_path_cache' = NoLocator
    /\ pdf_files' = <<>>
    /\ pdf_cache' = EmptyStore
    /\ files_to_process' = {}
    /\ tasks' = NoTasks
    /\ batchEnv' = 0
    /\ keyword' = <<>>
    /\ results' = <<>>
    /\ file_groups' = <<>>
    /\ index_queried' = FALSE
    /\ cand_left' = <<>>
    /\ page_tasks' = <<>>

\* The run ends: st.stop(), st.rerun() or the end of the script.
EndRun ==
    /\ pc' = "idle"
    /\ ResetMem
    /\ UNCHANGED <<runs, crashes, memo, aborted>>

\* An exception leaves main(); Streamlit reports it and the run ends.
Abort(site) ==
    /\ pc' = "idle"
    /\ aborted' = site
    /\ ResetMem
    /\ UNCHANGED <<runs, crashes, memo>>

\* ------------------------------------------------------------- environment
ExtWrite(p, t, b) ==
    /\ envLeft > 0
    /\ disk[p] # FileRec(t, b)
    /\ disk' = [disk EXCEPT ![p] = FileRec(t, b)]
    /\ envLeft' = envLeft - 1
    /\ UNCHANGED <<dirs, cacheFile, indexDb, memo, pc, runs, crashes, aborted>>
    /\ UNCHANGED memVars

ExtDelete(p) ==
    /\ envLeft > 0
    /\ disk[p].exists
    /\ disk' = [disk EXCEPT ![p] = NoFile]
    /\ envLeft' = envLeft - 1
    /\ UNCHANGED <<dirs, cacheFile, indexDb, memo, pc, runs, crashes, aborted>>
    /\ UNCHANGED memVars

ExtChmod(r, s) ==
    /\ envLeft > 0
    /\ dirs[r] # s
    /\ dirs' = [dirs EXCEPT ![r] = s]
    /\ envLeft' = envLeft - 1
    /\ UNCHANGED <<disk, cacheFile, indexDb, memo, pc, runs, crashes, aborted>>
    /\ UNCHANGED memVars

\* Bytes of the cache file are changed outside the program (a failing disk,
\* another writer): unpickling it raises an error that is neither a
\* PickleError nor an EOFError (UnicodeDecodeError, ValueError, ...).
ExtDamageCache ==
    /\ envLeft > 0
    /\ cacheFile.kind = "ok"
    /\ cacheFile' = [cacheFile EXCEPT !.kind = "damaged"]
    /\ envLeft' = envLeft - 1
    /\ UNCHANGED <<disk, dirs, indexDb, memo, pc, runs, crashes, aborted>>
    /\ UNCHANGED memVars

\* The server process dies (or is restarted); files stay as they are.
Crash ==
    /\ crashes < MaxCrash
    /\ crashes' = crashes + 1
    /\ pc' = "idle"
    /\ memo' = NoMemo
    /\ ResetMem
    /\ UNCHANGED <<runs, aborted, cacheFile, indexDb>>
    /\ UNCHANGED envVars

\* ------------------------------------------------------------------ main()
StartRun ==
    /\ pc = "idle"
    /\ runs < MaxRuns
    /\ runs' = runs + 1
    /\ pc' = "locator"
    /\ aborted' = "none"
    /\ UNCHANGED <<crashes, memo, cacheFile, indexDb>>
    /\ UNCHANGED envVars
    /\ UNCHANGED memVars

\* if not _file_path_cache: _file_path_cache = build_file_path_cache()
BuildLocator ==
    /\ pc = "locator"
    /\ file_path_cache' = IF ~LocatorTruthy(file_path_cache)
                          THEN build_file_path_cache ELSE file_path_cache
    /\ pc' = "dirs"
    /\ UNCHANGED <<runs, crashes, memo, cacheFile, indexDb, aborted>>
    /\ UNCHANGED <<pdf_files, pdf_cache, files_to_process, tasks, batchEnv,
                   keyword, results, scanVars>>
    /\ UNCHANGED envVars

\* valid_directories, and the PDF count of each of them
DirStatus ==
    /\ pc = "dirs"
    /\ IF \A r \in Roots : ~DirExists(r)
       THEN EndRun
       ELSE IF \E r \in Roots : DirExists(r) /\ ~DirListable(r)
       THEN Abort("main")
       ELSE /\ pc' = "scan"
            /\ UNCHANGED <<runs, crashes, memo, aborted>>
            /\ UNCHANGED memVars
    /\ UNCHANGED <<cacheFile, indexDb>>
    /\ UNCHANGED envVars

\* pdf_files = get_all_pdf_files()
Scan ==
    /\ pc = "scan"
    /\ LET r == get_all_pdf_files
       IN  IF ~r.ok THEN Abort("get_all_pdf_files")
           ELSE IF r.files = <<>> THEN EndRun
           ELSE /\ pdf_files' = r.files
                /\ pc' = "load"
                /\ UNCHANGED <<runs, crashes, memo, aborted>>
                /\ UNCHANGED <<file_path_cache, pdf_cache, files_to_process,
                               tasks, batchEnv, keyword, results, scanVars>>
    /\ UNCHANGED <<cacheFile, indexDb>>
    /\ UNCHANGED envVars

\* pickle.load of the cache file; a truncated file raises EOFError or
\* UnpicklingError, which load_cached_data turns into {}
ReadCacheFile(file) ==
    IF file.kind = "ok" THEN file.store ELSE EmptyStore

\* pickle.load raises an exception that the except clause of
\* load_cached_data does not name
LoadRaises(file) == file.kind = "damaged"

\* pdf_cache = load_cached_data(), memoised by st.cache_data; an exception
\* leaves load_cached_data and main(), and nothing is memoised
Load ==
    /\ pc = "load"
    /\ IF memo.set
       THEN /\ pdf_cache' = memo.store
            /\ pc' = "check"
            /\ UNCHANGED <<runs, crashes, aborted, memo>>
            /\ UNCHANGED <<file_path_cache, pdf_files, files_to_process, tasks,
                           batchEnv, keyword, results, scanVars>>
       ELSE IF LoadRaises(cacheFile)
       THEN Abort("load_cached_data")
       ELSE /\ pdf_cache' = ReadCacheFile(cacheFile)
            /\ memo' = [set |-> TRUE, store |-> ReadCacheFile(cacheFile)]
            /\ pc' = "check"
            /\ UNCHANGED <<runs, crashes, aborted>>
            /\ UNCHANGED <<file_path_cache, pdf_files, files_to_process, tasks,
                           batchEnv, keyword, results, scanVars>>
    /\ UNCHANGED <<cacheFile, indexDb>>
    /\ UNCHANGED envVars

\* files_to_process = check_for_updates(...) + new_files, without duplicates
Check ==
    /\ pc = "check"
    /\ LET r == check_for_updates(pdf_files, pdf_cache)
       IN  IF ~r.ok THEN Abort("check_for_updates")
           ELSE /\ files_to_process' = FilesToProcess(r.files, pdf_files, pdf_cache)
                /\ pc' = "decide"
                /\ UNCHANGED <<runs, crashes, memo, aborted>>
                /\ UNCHANGED <<file_path_cache, pdf_files, pdf_cache, tasks,
                               batchEnv, keyword, results, scanVars>>
    /\ UNCHANGED <<cacheFile, indexDb>>
    /\ UNCHANGED envVars

\* ------------------------------------------------------ process_pdfs_batch
Running == {p \in PdfPaths : tasks[p].st = "running"}

\* Variant: '_metadata' is initialised before the test for an empty batch.
BatchEnter_MetaFirst ==
    /\ pdf_cache' = [pdf_cache EXCEPT !.hasMeta = TRUE]
    /\ IF files_to_process = {}
       THEN /\ pc' = "save"
            /\ UNCHANGED <<tasks, batchEnv>>
       ELSE /\ tasks' = [p \in PdfPaths |->
                            IF p \in files_to_process
                            THEN [NoTask EXCEPT !.st = "queued"] ELSE NoTask]
            /\ batchEnv' = envLeft
            /\ pc' = "batch"
    /\ UNCHANGED <<runs, crashes, memo, aborted, cacheFile, indexDb>>
    /\ UNCHANGED <<file_path_cache, pdf_files, files_to_process, keyword, results, scanVars>>
    /\ UNCHANGED envVars

\* process_pdfs_batch is entered: with an empty batch it returns the store
\* at once; otherwise it initialises '_metadata' and submits one task per
\* file.
BatchEnter ==
    /\ IF files_to_process = {}
       THEN /\ pc' = "save"
            /\ UNCHANGED <<pdf_cache, tasks, batchEnv>>
       ELSE /\ pdf_cache' = [pdf_cache EXCEPT !.hasMeta = TRUE]
            /\ tasks' = [p \in PdfPaths |->
                            IF p \in files_to_process
                            THEN [NoTask EXCEPT !.st = "queued"] ELSE NoTask]
            /\ batchEnv' = envLeft
            /\ pc' = "batch"
    /\ UNCHANGED <<runs, crashes, memo, aborted, cacheFile, indexDb>>
    /\ UNCHANGED <<file_path_cache, pdf_files, files_to_process, keyword, results, scanVars>>
    /\ UNCHANGED envVars

\* if files_to_process: the user presses "Process PDFs"
BatchSubmit ==
    /\ pc = "decide"
    /\ files_to_process # {}
    /\ BatchEnter

\* Nothing to process, or the button is not pressed.
NoBatch ==
    /\ pc = "decide"
    /\ pc' = "index"
    /\ UNCHANGED <<runs, crashes, memo, aborted, cacheFile, indexDb>>
    /\ UNCHANGED memVars
    /\ UNCHANGED envVars

\* Variant: the pool starts a thread for every task.
PoolFree_Unbounded(running, max_workers) == TRUE

\* ThreadPoolExecutor(max_workers=...): a thread of the pool is free
PoolFree(running, max_workers) == Cardinality(running) < max_workers

\* A pool thread takes a queued task.
TaskStart(p) ==
    /\ pc = "batch"
    /\ tasks[p].st = "queued"
    /\ PoolFree(Running, MAX_WORKERS)
    /\ tasks' = [tasks EXCEPT ![p].st = "running"]
    /\ UNCHANGED <<pc, runs, crashes, memo, aborted, cacheFile, indexDb>>
    /\ UNCHANGED <<file_path_cache, pdf_files, pdf_cache, files_to_process,
                   batchEnv, keyword, results, scanVars>>
    /\ UNCHANGED envVars

\* Variant: the task itself stores its pages in pdf_cache.
TaskFinish_WritesStore(p) ==
    /\ pc = "batch"
    /\ tasks[p].st = "running"
    /\ tasks' = [tasks EXCEPT ![p] =
                    [st |-> "done",
                     pages |-> extract_pdf_text_pdfplumber(p),
                     readMtime |-> disk[p].mtime,
                     readBody |-> disk[p].body]]
    /\ pdf_cache' = SetPages(pdf_cache, Basename(p), extract_pdf_text_pdfplumber(p),
                             p, disk[p].mtime, disk[p].body, runs)
    /\ UNCHANGED <<pc, runs, crashes, memo, aborted, cacheFile, indexDb>>
    /\ UNCHANGED <<file_path_cache, pdf_files, files_to_process,
                   batchEnv, keyword, results, scanVars>>
    /\ UNCHANGED envVars

\* The task reads the file and returns its pages.
TaskFinish(p) ==
    /\ pc = "batch"
    /\ tasks[p].st = "running"
    /\ tasks' = [tasks EXCEPT ![p] =
                    [st |-> "done",
                     pages |-> extract_pdf_text_pdfplumber(p),
                     readMtime |-> disk[p].mtime,
                     readBody |-> disk[p].body]]
    /\ UNCHANGED <<pc, runs, crashes, memo, aborted, cacheFile, indexDb>>
    /\ UNCHANGED <<file_path_cache, pdf_files, pdf_cache, files_to_process,
                   batchEnv, keyword, results, scanVars>>
    /\ UNCHANGED envVars

\* Variant: the pages of a filename that is already cached are kept.
ApplyResult_KeepExisting(store, p, task, at) ==
    LET withPages == IF store.entry[Basename(p)].present THEN store
                     ELSE SetPages(store, Basename(p), task.pages, p,
                                   task.readMtime, task.readBody, at)
    IN  IF StatOk(p)
        THEN SetMeta(withPages, Basename(p), get_file_modification_time(p), at, p)
        ELSE withPages

\* The body of the as_completed loop for one future: the pages are stored,
\* then the modification time is read; if that raises, the except clause
\* reports it and the loop goes on.
ApplyResult(store, p, task, at) ==
    LET withPages == SetPages(store, Basename(p), task.pages, p,
                              task.readMtime, task.readBody, at)
    IN  IF StatOk(p)
        THEN SetMeta(withPages, Basename(p), get_file_modification_time(p), at, p)
        ELSE withPages

ApplyTask(p) ==
    /\ pc = "batch"
    /\ tasks[p].st = "done"
    /\ pdf_cache' = ApplyResult(pdf_cache, p, tasks[p], runs)
    /\ tasks' = [tasks EXCEPT ![p] = [NoTask EXCEPT !.st = "applied"]]
    /\ UNCHANGED <<pc, runs, crashes, memo, aborted, cacheFile, indexDb>>
    /\ UNCHANGED <<file_path_cache, pdf_files, files_to_process, batchEnv,
                   keyword, results, scanVars>>
    /\ UNCHANGED envVars

\* Every future has been handled: process_pdfs_batch returns.
BatchReturn ==
    /\ pc = "batch"
    /\ \A p \in files_to_process : tasks[p].st = "applied"
    /\ pc' = "save"
    /\ UNCHANGED <<runs, crashes, memo, aborted, cacheFile, indexDb>>
    /\ UNCHANGED memVars
    /\ UNCHANGED envVars

\* -------------------------------------------------------------- save_cache
\* open(cache_file, "wb") truncates the file, or raises
SaveOpen(ok) ==
    /\ pc = "save"
    /\ IF ok
       THEN /\ cacheFile' = [kind |-> "partial", store |-> EmptyStore,
                             prev |-> ReadCacheFile(cacheFile), batch |-> {}]
            /\ pc' = "dump"
       ELSE /\ pc' = "mkindex"
            /\ UNCHANGED cacheFile
    /\ UNCHANGED <<runs, crashes, memo, aborted, indexDb>>
    /\ UNCHANGED memVars
    /\ UNCHANGED envVars

\* pickle.dump(data, f) completes, or raises part-way
SaveDump(ok) ==
    /\ pc = "dump"
    /\ IF ok
       THEN cacheFile' = [kind |-> "ok", store |-> pdf_cache, prev |-> EmptyStore,
                          batch |-> files_to_process]
       ELSE UNCHANGED cacheFile
    /\ pc' = "mkindex"
    /\ UNCHANGED <<runs, crashes, memo, aborted, indexDb>>
    /\ UNCHANGED memVars
    /\ UNCHANGED envVars

\* ---------------------------------------------------- create_text_index_db
\* sqlite3.connect creates the database file when there is none
IndexConnect(from, to) ==
    /\ pc = from
    /\ indexDb' = IF indexDb.state = "absent"
                  THEN NoTableDb ELSE indexDb
    /\ pc' = to
    /\ UNCHANGED <<runs, crashes, memo, aborted, cacheFile>>
    /\ UNCHANGED memVars
    /\ UNCHANGED envVars

\* CREATE TABLE IF NOT EXISTS (committed at once)
IndexCreateTable(from, to) ==
    /\ pc = from
    /\ indexDb' = IF indexDb.state = "ok"
                  THEN indexDb
                  ELSE [state |-> "ok", rows |-> <<>>, replaced |-> <<>>]
    /\ pc' = to
    /\ UNCHANGED <<runs, crashes, memo, aborted, cacheFile>>
    /\ UNCHANGED memVars
    /\ UNCHANGED envVars

\* Variant: the rows of earlier rebuilds are kept in front of the new ones.
IndexFill_KeepsRows(from) ==
    /\ pc = from
    /\ indexDb' = [state |-> "ok", rows |-> indexDb.rows \o IndexRows(pdf_cache),
                   replaced |-> <<>>]
    /\ UNCHANGED <<runs, crashes, memo, aborted, cacheFile>>
    /\ UNCHANGED envVars

\* DELETE FROM text_index, the INSERTs and the commit: one transaction
IndexFill(from) ==
    /\ pc = from
    /\ indexDb' = [state |-> "ok", rows |-> IndexRows(pdf_cache),
                   replaced |-> indexDb.rows]
    /\ UNCHANGED <<runs, crashes, memo, aborted, cacheFile>>
    /\ UNCHANGED envVars

\* create_text_index_db after the batch, then st.rerun()
IndexAfterBatch ==
    \/ IndexConnect("mkindex", "mkindex_table")
    \/ IndexCreateTable("mkindex_table", "mkindex_fill")
    \/ IndexFill("mkindex_fill") /\ pc' = "idle" /\ ResetMem

\* if not os.path.exists(TEXT_INDEX_DB) and pdf_cache: create_text_index_db
IndexIfMissing ==
    \/ /\ pc = "index"
       /\ IF indexDb.state = "absent" /\ StoreTruthy(pdf_cache)
          THEN pc' = "index_connect" ELSE pc' = "ui"
       /\ UNCHANGED <<runs, crashes, memo, aborted, cacheFile, indexDb>>
       /\ UNCHANGED memVars
       /\ UNCHANGED envVars
    \/ IndexConnect("index_connect", "index_table")
    \/ IndexCreateTable("index_table", "index_fill")
    \/ IndexFill("index_fill") /\ pc' = "ui" /\ UNCHANGED memVars

\* --------------------------------------------------------------- search UI
\* if keyword and (search_button or keyword): results = smart_search(...)
Search(kw) ==
    /\ pc = "ui"
    /\ IF kw # <<>> /\ SmartSearchRaises(kw, pdf_cache)
       THEN Abort("smart_search")
       ELSE /\ keyword' = kw
            /\ results' = IF kw = <<>> THEN <<>> ELSE smart_search(kw, pdf_cache)
            /\ index_queried' = (kw # <<>> /\ QueriesIndex(kw))
            /\ pc' = "show"
            /\ UNCHANGED <<runs, crashes, memo, aborted>>
            /\ UNCHANGED <<file_path_cache, pdf_files, pdf_cache, files_to_process,
                           tasks, batchEnv, file_groups, cand_left, page_tasks>>
    /\ UNCHANGED <<cacheFile, indexDb>>
    /\ UNCHANGED envVars

\* if results: ... file_groups = group_results_by_file(results), and the
\* groups are shown
ShowResults ==
    /\ pc = "show"
    /\ file_groups' = IF results # <<>> THEN group_results_by_file(results) ELSE <<>>
    /\ pc' = "sidebar"
    /\ UNCHANGED <<runs, crashes, memo, aborted, cacheFile, indexDb>>
    /\ UNCHANGED <<file_path_cache, pdf_files, pdf_cache, files_to_process, tasks,
                   batchEnv, keyword, results, index_queried, cand_left, page_tasks>>
    /\ UNCHANGED envVars

\* No sidebar button is pressed: the script ends.
Finish ==
    /\ pc = "sidebar"
    /\ EndRun
    /\ UNCHANGED <<cacheFile, indexDb>>
    /\ UNCHANGED envVars

\* "Clear Cache": both files are removed, then st.rerun()
ClearCache ==
    /\ pc = "sidebar"
    /\ cacheFile' = AbsentCache
    /\ indexDb' = AbsentDb
    /\ EndRun
    /\ UNCHANGED envVars

\* "Rebuild Index": the database file is removed and, if pdf_cache is not
\* empty, created again
RebuildIndex ==
    \/ /\ pc = "sidebar"
       /\ indexDb' = AbsentDb
       /\ IF StoreTruthy(pdf_cache)
          THEN /\ pc' = "rebuild_connect"
               /\ UNCHANGED <<runs, crashes, memo, aborted>>
               /\ UNCHANGED memVars
          ELSE EndRun
       /\ UNCHANGED cacheFile
       /\ UNCHANGED envVars
    \/ IndexConnect("rebuild_connect", "rebuild_table")
    \/ IndexCreateTable("rebuild_table", "rebuild_fill")
    \/ IndexFill("rebuild_fill") /\ pc' = "idle" /\ ResetMem

\* --------------------------------------------------------- specification
Environment ==
    \/ \E p \in PdfPaths, t \in 1..MaxTime : \E b \in WriteBodies(p) : ExtWrite(p, t, b)
    \/ \E p \in PdfPaths : ExtDelete(p)
    \/ \E r \in Roots, s \in {"ok", "denied", "missing"} : ExtChmod(r, s)
    \/ ExtDamageCache

Next ==
    \/ Environment
    \/ Crash
    \/ StartRun
    \/ BuildLocator
    \/ DirStatus
    \/ Scan
    \/ Load
    \/ Check
    \/ BatchSubmit
    \/ NoBatch
    \/ \E p \in PdfPaths : TaskStart(p)
    \/ \E p \in PdfPaths : TaskFinish(p)
    \/ \E p \in PdfPaths : ApplyTask(p)
    \/ BatchReturn
    \/ \E ok \in BOOLEAN : SaveOpen(ok)
    \/ \E ok \in BOOLEAN : SaveDump(ok)
    \/ IndexAfterBatch
    \/ IndexIfMissing
    \/ \E kw \in Keywords : Search(kw)
    \/ ShowResults
    \/ Finish
    \/ ClearCache
    \/ RebuildIndex

Spec == Init /\ [][Next]_vars

\* ------------------------------------------- search over a loaded store
\* The search functions applied to stores of documents with long pages, many
\* pages, repeated and overlapping keywords, and U+0130.
Rep(c, n) == [i \in 1..n |-> c]

\* The lengths of the words around a keyword: short, and around the radius.
Pads == {3} \cup ((CONTEXT_CHARS - 2)..MaxPad)

\* "xx y..y a y..y xx" with l and r letters in the two words beside the a.
WindowText(l, r) ==
    <<"x", "x", " ">> \o Rep("y", l) \o <<" ", "a", " ">> \o Rep("y", r)
    \o <<" ", "x", "x">>

\* "y..y a": the word before the keyword starts the text.
EdgeText(l) == Rep("y", l) \o <<" ", "a">>

\* "a y..y y..y a": two occurrences with different contexts.
FarText == <<"a", " ">> \o Rep("y", MaxPad) \o <<" ">> \o Rep("y", MaxPad)
           \o <<" ", "a">>

\* n times U+0130, then " a ", then a word of r letters.
DottedText(n, r) == Rep(DottedI, n) \o <<" ", "a", " ">> \o Rep("y", r)

\* A document whose text holds the characters '%' and '_'.
WildDoc == << <<"5", "%", " ", "a", "_", "b">>, <<"a", "x", "b">> >>

\* Keywords that hold the characters '%' and '_'.
WildKeywords == {<<"%">>, <<"_">>, <<"a", "_">>, <<"5", "%">>, <<"a", "_", "b">>}

\* The page lists of the documents searched.
SearchDocs ==
    {<< <<"a", "a", "a">>, <<"b">> >>,
     << <<"a", " ", "b", " ", "a">>, <<>>, <<"B", " ", "a">> >>,
     <<FarText, <<"b", " ", "a">> >>}
    \cup {LongPages(n) : n \in PARALLEL_PAGES..MaxPages}
    \cup {<<WindowText(l, r)>> : l \in Pads, r \in Pads}
    \cup {<<EdgeText(l)>> : l \in Pads}
    \cup {<<DottedText(2, 0)>>, <<DottedText(MaxPad, 0)>>, <<DottedText(MaxPad, 10)>>}
    \cup {WildDoc}

\* The store process_pdfs_batch leaves for the documents docs = <<name, pages>>...
RECURSIVE StoreOf(_)
StoreOf(docs) ==
    IF docs = <<>> THEN [EmptyStore EXCEPT !.hasMeta = TRUE]
    ELSE LET d == docs[Len(docs)]
             rest == StoreOf(SubSeq(docs, 1, Len(docs) - 1))
         IN  SetMeta(SetPages(rest, d[1], d[2], PathJoin(1, d[1]), 1, "B1", 1),
                     d[1], 1, 1, PathJoin(1, d[1]))

SecondDoc == << <<"b">>, FarText >>

SearchStores ==
    {StoreOf(<< <<"a.pdf", d>> >>) : d \in SearchDocs}
    \cup {StoreOf(<< <<"a.pdf", d>>, <<"b.pdf", SecondDoc>> >>) : d \in SearchDocs}
    \cup {StoreOf(<< <<"b.pdf", SecondDoc>>, <<"a.pdf", d>> >>) : d \in SearchDocs}

SearchKeywords == Keywords \cup {<<"a", "a">>} \cup WildKeywords

\* A run that has loaded a store and reached the search box; the prefilter
\* index has no table yet or holds the rows of the store.
InitSearch ==
    /\ disk = InitDisk
    /\ dirs = [r \in Roots |-> "ok"]
    /\ envLeft = 0
    /\ pdf_cache \in SearchStores
    /\ cacheFile = [kind |-> "ok", store |-> pdf_cache, prev |-> EmptyStore,
                    batch |-> {}]
    /\ indexDb \in {NoTableDb,
                     [state |-> "ok", rows |-> IndexRows(pdf_cache),
                      replaced |-> <<>>]}
    /\ memo = [set |-> TRUE, store |-> pdf_cache]
    /\ pc = "ui"
    /\ runs = 1
    /\ crashes = 0
    /\ file_path_cache = build_file_path_cache
    /\ pdf_files = get_all_pdf_files.files
    /\ files_to_process = {}
    /\ tasks = NoTasks
    /\ batchEnv = 0
    /\ aborted = "none"
    /\ keyword = <<>>
    /\ results = <<>>
    /\ file_groups = <<>>
    /\ index_queried = FALSE
    /\ cand_left = <<>>
    /\ page_tasks = <<>>
    /\ InitEdition

NextSearch ==
    \/ \E kw \in SearchKeywords : Search(kw)
    \/ ShowResults
    \/ Finish

SpecSearch == InitSearch /\ [][NextSearch]_vars

\* ------------------------------------------------ search, step by step
\* smart_search as the steps of its loop over the candidates and of the page
\* pool of search_pages_parallel.
RunningPages == {i \in 1..Len(page_tasks) : page_tasks[i] = "running"}

\* smart_search starts: the early return, or the candidates are fetched.
SearchBegin(kw) ==
    /\ pc = "ui"
    /\ IF kw # <<>> /\ SmartSearchRaises(kw, pdf_cache)
       THEN Abort("smart_search")
       ELSE /\ keyword' = kw
            /\ results' = <<>>
            /\ index_queried' = (kw # <<>> /\ QueriesIndex(kw))
            /\ IF kw # <<>> /\ QueriesIndex(kw)
               THEN /\ cand_left' = Candidates(search_text_index(Strip(kw)), pdf_cache)
                    /\ pc' = "search"
               ELSE /\ cand_left' = <<>>
                    /\ pc' = "show"
            /\ UNCHANGED <<runs, crashes, memo, aborted>>
            /\ UNCHANGED <<file_path_cache, pdf_files, pdf_cache, files_to_process,
                           tasks, batchEnv, file_groups, page_tasks>>
    /\ UNCHANGED <<cacheFile, indexDb>>
    /\ UNCHANGED envVars

\* for pdf_file in candidate_files: a file that is not cached is skipped, a
\* short document is scanned in the loop, a long one goes to the page pool
\* (executor.map submits every page at once); after the last candidate
\* smart_search returns.
SearchFile ==
    /\ pc = "search"
    /\ IF cand_left = <<>>
       THEN /\ pc' = "show"
            /\ UNCHANGED <<results, cand_left, page_tasks>>
       ELSE LET n == Head(cand_left)
            IN  IF ~InStore(pdf_cache, n)
                THEN /\ cand_left' = Tail(cand_left)
                     /\ UNCHANGED <<pc, results, page_tasks>>
                ELSE IF UsesPool(pdf_cache.entry[n].pages)
                THEN /\ page_tasks' = [i \in 1..Len(pdf_cache.entry[n].pages) |-> "queued"]
                     /\ pc' = "pagescan"
                     /\ UNCHANGED <<results, cand_left>>
                ELSE /\ results' = results \o ScanPages(n, pdf_cache.entry[n].pages,
                                                         Strip(keyword), 1)
                     /\ cand_left' = Tail(cand_left)
                     /\ UNCHANGED <<pc, page_tasks>>
    /\ UNCHANGED <<runs, crashes, memo, aborted, cacheFile, indexDb>>
    /\ UNCHANGED <<file_path_cache, pdf_files, pdf_cache, files_to_process, tasks,
                   batchEnv, keyword, file_groups, index_queried>>
    /\ UNCHANGED envVars

\* A thread of the page pool takes the next page of the work queue.
PageStart(i) ==
    /\ pc = "pagescan"
    /\ i \in 1..Len(page_tasks)
    /\ page_tasks[i] = "queued"
    /\ \A j \in 1..(i - 1) : page_tasks[j] # "queued"
    /\ PoolFree(RunningPages, PAGE_WORKERS)
    /\ page_tasks' = [page_tasks EXCEPT ![i] = "running"]
    /\ UNCHANGED <<pc, runs, crashes, memo, aborted, cacheFile, indexDb>>
    /\ UNCHANGED <<file_path_cache, pdf_files, pdf_cache, files_to_process, tasks,
                   batchEnv, keyword, results, file_groups, index_queried, cand_left>>
    /\ UNCHANGED envVars

\* search_single_page returns for page i.
PageFinish(i) ==
    /\ pc = "pagescan"
    /\ i \in 1..Len(page_tasks)
    /\ page_tasks[i] = "running"
    /\ page_tasks' = [page_tasks EXCEPT ![i] = "done"]
    /\ UNCHANGED <<pc, runs, crashes, memo, aborted, cacheFile, indexDb>>
    /\ UNCHANGED <<file_path_cache, pdf_files, pdf_cache, files_to_process, tasks,
                   batchEnv, keyword, results, file_groups, index_queried, cand_left>>
    /\ UNCHANGED envVars

\* Every page task has returned: the loop over executor.map has extended
\* page_results in page order, the pool is shut down, and smart_search
\* extends its results.
PageCollect ==
    /\ pc = "pagescan"
    /\ \A i \in 1..Len(page_tasks) : page_tasks[i] = "done"
    /\ results' = results \o MapPages(Head(cand_left),
                                      pdf_cache.entry[Head(cand_left)].pages,
                                      Strip(keyword))
    /\ cand_left' = Tail(cand_left)
    /\ page_tasks' = <<>>
    /\ pc' = "search"
    /\ UNCHANGED <<runs, crashes, memo, aborted, cacheFile, indexDb>>
    /\ UNCHANGED <<file_path_cache, pdf_files, pdf_cache, files_to_process, tasks,
                   batchEnv, keyword, file_groups, index_queried>>
    /\ UNCHANGED envVars

\* Root 1 holds a document of MaxPages pages and one of PARALLEL_PAGES pages.
PoolDisk ==
    [InitDisk EXCEPT ![PathJoin(1, "a.pdf")] = FileRec(1, "BLONG"),
                     ![PathJoin(1, "b.pdf")] = FileRec(2, "BEDGE")]

PoolKeywords == {<<>>, <<" ">>, <<"a">>, <<"B">>}

InitPool ==
    /\ disk = PoolDisk
    /\ dirs = [r \in Roots |-> "ok"]
    /\ envLeft = 0
    /\ cacheFile = AbsentCache
    /\ indexDb = AbsentDb
    /\ memo = NoMemo
    /\ pc = "idle"
    /\ runs = 0
    /\ crashes = 0
    /\ file_path_cache = NoLocator
    /\ pdf_files = <<>>
    /\ pdf_cache = EmptyStore
    /\ files_to_process = {}
    /\ tasks = NoTasks
    /\ batchEnv = 0
    /\ aborted = "none"
    /\ keyword = <<>>
    /\ results = <<>>
    /\ file_groups = <<>>
    /\ index_queried = FALSE
    /\ cand_left = <<>>
    /\ page_tasks = <<>>
    /\ InitEdition

NextPool ==
    \/ Crash
    \/ StartRun
    \/ BuildLocator
    \/ DirStatus
    \/ Scan
    \/ Load
    \/ Check
    \/ BatchSubmit
    \/ NoBatch
    \/ \E p \in PdfPaths : TaskStart(p)
    \/ \E p \in PdfPaths : TaskFinish(p)
    \/ \E p \in PdfPaths : ApplyTask(p)
    \/ BatchReturn
    \/ \E ok \in BOOLEAN : SaveOpen(ok)
    \/ \E ok \in BOOLEAN : SaveDump(ok)
    \/ IndexAfterBatch
    \/ IndexIfMissing
    \/ \E kw \in PoolKeywords : SearchBegin(kw)
    \/ SearchFile
    \/ \E i \in 1..MaxPages : PageStart(i)
    \/ \E i \in 1..MaxPages : PageFinish(i)
    \/ PageCollect
    \/ ShowResults
    \/ Finish
    \/ ClearCache
    \/ RebuildIndex

SpecPool == InitPool /\ [][NextPool]_vars

\* --------------------------------------------------- grouping of results
\* group_results_by_file applied to the record sequences of up to MaxRecords
\* records over three files and to two arrangements of 5, 9 and 2 records.
MaxRecords == 4

GroupFiles == {"a.pdf", "b.pdf", "c.pdf"}

\* The MatchRecords of the files fs, numbered by their place in the sequence.
RecordsFor(fs) ==
    [j \in 1..Len(fs) |->
        [file |-> fs[j], page_number |-> j, context |-> <<"[", "a", "]">>,
         full_text |-> <<"a">>, full_path |-> NoPath]]

CountsExample ==
    {Rep("a.pdf", 5) \o Rep("b.pdf", 9) \o Rep("c.pdf", 2),
     <<"a.pdf", "b.pdf", "c.pdf", "b.pdf", "a.pdf", "b.pdf", "c.pdf", "b.pdf">>
     \o <<"a.pdf", "b.pdf", "a.pdf", "b.pdf", "a.pdf", "b.pdf", "b.pdf", "b.pdf">>}

GroupInputs ==
    {RecordsFor(fs) : fs \in UNION {[1..n -> GroupFiles] : n \in 1..MaxRecords}}
    \cup {RecordsFor(fs) : fs \in CountsExample}

\* A search has returned its records; they are about to be grouped and shown.
InitGroup ==
    /\ disk = InitDisk
    /\ dirs = [r \in Roots |-> "ok"]
    /\ envLeft = 0
    /\ cacheFile = AbsentCache
    /\ indexDb = AbsentDb
    /\ memo = NoMemo
    /\ pc = "show"
    /\ runs = 1
    /\ crashes = 0
    /\ file_path_cache = NoLocator
    /\ pdf_files = <<>>
    /\ pdf_cache = EmptyStore
    /\ files_to_process = {}
    /\ tasks = NoTasks
    /\ batchEnv = 0
    /\ aborted = "none"
    /\ keyword = <<"a">>
    /\ results \in GroupInputs
    /\ file_groups = <<>>
    /\ index_queried = TRUE
    /\ cand_left = <<>>
    /\ page_tasks = <<>>
    /\ InitEdition

NextGroup ==
    \/ ShowResults
    \/ Finish

SpecGroup == InitGroup /\ [][NextGroup]_vars

\* ------------------------------------------------- a batch on its own
\* process_pdfs_batch called with every batch over the documents of the
\* roots, the empty batch included, and with stores that hold no, one or two
\* documents.
BatchStores ==
    {EmptyStore,
     StoreOf(<< <<"b.pdf", <<<<"b">>>> >> >>),
     StoreOf(<< <<"b.pdf", <<<<"b">>>> >>, <<"a.pdf", <<<<"a">>, <<>>>> >> >>)}

\* process_pdfs_batch(files_to_process, pdf_cache) is called
BatchCall ==
    /\ pc = "call"
    /\ BatchEnter

\* memo.store is the store as it was loaded, before the call.
InitBatch ==
    /\ disk = InitDisk
    /\ dirs = [r \in Roots |-> "ok"]
    /\ envLeft = 0
    /\ pdf_cache \in BatchStores
    /\ cacheFile = IF pdf_cache = EmptyStore THEN AbsentCache
                   ELSE [kind |-> "ok", store |-> pdf_cache, prev |-> EmptyStore,
                         batch |-> {}]
    /\ indexDb = AbsentDb
    /\ memo = [set |-> TRUE, store |-> pdf_cache]
    /\ pc = "call"
    /\ runs = 1
    /\ crashes = 0
    /\ file_path_cache = build_file_path_cache
    /\ pdf_files = get_all_pdf_files.files
    /\ files_to_process \in SUBSET PdfPaths
    /\ tasks = NoTasks
    /\ batchEnv = 0
    /\ aborted = "none"
    /\ keyword = <<>>
    /\ results = <<>>
    /\ file_groups = <<>>
    /\ index_queried = FALSE
    /\ cand_left = <<>>
    /\ page_tasks = <<>>
    /\ InitEdition

NextBatch ==
    \/ BatchCall
    \/ \E p \in PdfPaths : TaskStart(p)
    \/ \E p \in PdfPaths : TaskFinish(p)
    \/ \E p \in PdfPaths : ApplyTask(p)
    \/ BatchReturn

SpecBatch == InitBatch /\ [][NextBatch]_vars

\* ------------------------------------ retry_network_operation (network)
\* The operations the network edition wraps: os.path.getmtime(file_path)
\* and the extraction of a document.
RetryOps == {"get_mtime", "do_extraction"}

\* What a call of the wrapped operation does now: an OSError when the file
\* or its directory cannot be reached, an error of another kind when
\* pdfplumber cannot parse the file, else a value.
OpOutcome(op, p) ==
    IF dirs[p.dir] # "ok" \/ ~disk[p].exists THEN "oserror"
    ELSE IF op = "do_extraction" /\ disk[p].body = "BAD" THEN "other"
    ELSE "ok"

\* The value the wrapped operation returns.
OpValue(op, p) ==
    IF op = "get_mtime" THEN <<"mtime", disk[p].mtime>>
    ELSE <<"pages", extract_pdf_text_pdfplumber(p)>>

\* Variant: a failed attempt is always followed by a wait.
MayRetry_Always(attempt) == TRUE

\* if attempt < NETWORK_RETRY_COUNT - 1
MayRetry(attempt) == attempt < NETWORK_RETRY_COUNT - 1

\* Everything but retry.
notRetry == <<disk, dirs, envLeft, cacheFile, indexDb, memo, pc, runs, crashes,
              file_path_cache, pdf_files, pdf_cache, files_to_process, tasks,
              batchEnv, aborted, keyword, results, scanVars, session>>

\* One iteration of the loop up to the return, the raise or the sleep:
\* func(*args, **kwargs) is called; log records what each call did.
RetryCall ==
    /\ retry.pc = "call"
    /\ LET out == OpOutcome(retry.op, retry.path)
           val == IF out = "ok" THEN OpValue(retry.op, retry.path) ELSE <<>>
           log == Append(retry.log, [out |-> out, value |-> val])
       IN  retry' =
             IF out = "ok"
             THEN [retry EXCEPT !.pc = "returned", !.log = log, !.result = val]
             ELSE IF out = "oserror" /\ MayRetry(retry.attempt)
             THEN [retry EXCEPT !.pc = "sleep", !.log = log,
                                !.waits = Append(@, NETWORK_RETRY_DELAY
                                                    * (2 ^ retry.attempt))]
             ELSE [retry EXCEPT !.pc = "raised", !.log = log,
                                !.error = <<out, Len(log)>>]
    /\ UNCHANGED notRetry

\* time.sleep(wait_time) ends and the for loop goes on: the next attempt, or
\* the end of range(NETWORK_RETRY_COUNT), after which the function returns
\* None.
RetrySleep ==
    /\ retry.pc = "sleep"
    /\ retry' = IF retry.attempt + 1 < NETWORK_RETRY_COUNT
                THEN [retry EXCEPT !.pc = "call", !.attempt = @ + 1]
                ELSE [retry EXCEPT !.pc = "returned", !.attempt = @ + 1,
                                   !.result = <<"None">>]
    /\ UNCHANGED notRetry

\* The files as they can be when the call starts.
RetryDisks ==
    {InitDisk} \cup {[InitDisk EXCEPT ![p] = NoFile] : p \in PdfPaths}
    \cup {[InitDisk EXCEPT ![p] = FileRec(1, "BAD")] : p \in PdfPaths}

\* retry_network_operation(func) has been called for an operation on a path.
InitRetry ==
    /\ disk \in RetryDisks
    /\ dirs \in {[r \in Roots |-> "ok"], [r \in Roots |-> IF r = 1 THEN "denied" ELSE "ok"]}
    /\ envLeft = MaxEnv
    /\ cacheFile = AbsentCache
    /\ indexDb = AbsentDb
    /\ memo = NoMemo
    /\ pc = "batch"
    /\ runs = 1
    /\ crashes = 0
    /\ file_path_cache = NoLocator
    /\ pdf_files = <<>>
    /\ pdf_cache = EmptyStore
    /\ files_to_process = {}
    /\ tasks = NoTasks
    /\ batchEnv = 0
    /\ aborted = "none"
    /\ keyword = <<>>
    /\ results = <<>>
    /\ file_groups = <<>>
    /\ index_queried = FALSE
    /\ cand_left = <<>>
    /\ page_tasks = <<>>
    /\ session = NoSession
    /\ \E op \in RetryOps, p \in PdfPaths :
          retry = [NoRetry EXCEPT !.pc = "call", !.op = op, !.path = p]

NextRetry ==
    \/ RetryCall
    \/ RetrySleep
    \/ \E p \in PdfPaths, t \in 1..MaxTime : \E b \in WriteBodies(p) : ExtWrite(p, t, b)
    \/ \E p \in PdfPaths : ExtDelete(p)
    \/ \E r \in Roots, s \in {"ok", "denied", "missing"} : ExtChmod(r, s)

\* The thread that runs the call is scheduled, and every sleep ends.
SpecRetry ==
    InitRetry /\ [][NextRetry]_vars /\ WF_vars(RetryCall) /\ WF_vars(RetrySleep)

\* ------------------------------------------- authentication (secure)
\* The main() of flask_stream_secure.py: the authentication gate, the logout
\* button and the network check, and then the steps of main() above.
MaxSessionRuns == 4

ENABLE_AUTHENTICATION == TRUE

\* The browser sessions; each has its own st.session_state.
Sessions == {1, 2}

Usernames == {"admin", "guest"}

Passwords == {"admin123", "wrong"}

\* hashlib.sha256(password.encode()).hexdigest(): the digest of a password,
\* different for different passwords
hash_password(password) == [sha256 |-> password]

\* The configuration create_default_auth_config writes: username -> stored
\* password hash.
AuthConfig == [u \in {"admin"} |-> hash_password("admin123")]

verify_credentials(username, password) ==
    IF username \in DOMAIN AuthConfig
    THEN AuthConfig[username] = hash_password(password)
    ELSE FALSE

\* st.session_state['authenticated'] of a session whose flag is "yes"
\* (True), "no" (False) or "unset" (no such key)
Authenticated(flag) == flag = "yes"

\* Everything but the position and memory of the run and the sessions.
notRun == <<disk, dirs, envLeft, cacheFile, indexDb, retry>>

\* A session (re)runs the script.
SecureStartRun(s) ==
    /\ pc = "idle"
    /\ runs < MaxSessionRuns
    /\ runs' = runs + 1
    /\ pc' = "auth"
    /\ aborted' = "none"
    /\ session' = [session EXCEPT !.cur = s]
    /\ UNCHANGED <<crashes, memo>>
    /\ UNCHANGED notRun
    /\ UNCHANGED <<file_path_cache, pdf_files, pdf_cache, files_to_process, tasks,
                   batchEnv, keyword, results, scanVars>>

\* if not check_authentication(): show_login_page(); return
AuthCheck ==
    /\ pc = "auth"
    /\ LET flag == session.flags[session.cur]
           set == IF ENABLE_AUTHENTICATION /\ flag = "unset" THEN "no" ELSE flag
       IN  /\ session' = [session EXCEPT !.flags[session.cur] = set]
           /\ pc' = IF ~ENABLE_AUTHENTICATION \/ Authenticated(set)
                    THEN "logout_button" ELSE "login"
    /\ UNCHANGED <<runs, crashes, memo, aborted>>
    /\ UNCHANGED notRun
    /\ UNCHANGED <<file_path_cache, pdf_files, pdf_cache, files_to_process, tasks,
                   batchEnv, keyword, results, scanVars>>

\* Variant: every submitted form sets the flag.
LoginPage_NoVerify(submit, username, password) ==
    /\ pc = "login"
    /\ session' = IF submit
                  THEN [session EXCEPT
                          !.form[session.cur] = <<username, password>>,
                          !.flags[session.cur] = "yes"]
                  ELSE session
    /\ EndRun
    /\ UNCHANGED notRun

\* show_login_page: the form is shown; when it was submitted with
\* credentials that verify, the flag is set and the script reruns; main
\* returns. form keeps what the session submitted last (history only).
LoginPage(submit, username, password) ==
    /\ pc = "login"
    /\ session' = IF submit
                  THEN [session EXCEPT
                          !.form[session.cur] = <<username, password>>,
                          !.flags[session.cur] =
                              IF verify_credentials(username, password)
                              THEN "yes" ELSE @]
                  ELSE session
    /\ EndRun
    /\ UNCHANGED notRun

\* show_logout_button: a press clears the flag and reruns the script.
LogoutButton(pressed) ==
    /\ pc = "logout_button"
    /\ IF pressed
       THEN /\ session' = [session EXCEPT !.flags[session.cur] = "no"]
            /\ EndRun
       ELSE /\ pc' = "network"
            /\ UNCHANGED session
            /\ UNCHANGED <<runs, crashes, memo, aborted>>
            /\ UNCHANGED <<file_path_cache, pdf_files, pdf_cache, files_to_process,
                           tasks, batchEnv, keyword, results, scanVars>>
    /\ UNCHANGED notRun

\* check_network_connectivity(); if not _network_status["connected"]: st.stop()
NetworkCheck(connected) ==
    /\ pc = "network"
    /\ IF connected
       THEN /\ pc' = "locator"
            /\ UNCHANGED <<runs, crashes, memo, aborted>>
            /\ UNCHANGED <<file_path_cache, pdf_files, pdf_cache, files_to_process,
                           tasks, batchEnv, keyword, results, scanVars>>
       ELSE EndRun
    /\ UNCHANGED session
    /\ UNCHANGED notRun

\* The server process dies or is restarted: the files stay, the memo and
\* every st.session_state are gone.
SecureCrash ==
    /\ crashes < MaxCrash
    /\ crashes' = crashes + 1
    /\ pc' = "idle"
    /\ memo' = NoMemo
    /\ session' = [session EXCEPT !.flags = [s \in Sessions |-> "unset"]]
    /\ ResetMem
    /\ UNCHANGED <<runs, aborted>>
    /\ UNCHANGED notRun

\* One document in root 1.
AuthDisk ==
    [p \in Paths |-> IF p = PathJoin(1, "a.pdf") THEN FileRec(1, "B1") ELSE NoFile]

InitAuth ==
    /\ disk = AuthDisk
    /\ dirs = [r \in Roots |-> "ok"]
    /\ envLeft = 0
    /\ cacheFile = AbsentCache
    /\ indexDb = AbsentDb
    /\ memo = NoMemo
    /\ pc = "idle"
    /\ runs = 0
    /\ crashes = 0
    /\ file_path_cache = NoLocator
    /\ pdf_files = <<>>
    /\ pdf_cache = EmptyStore
    /\ files_to_process = {}
    /\ tasks = NoTasks
    /\ batchEnv = 0
    /\ aborted = "none"
    /\ keyword = <<>>
    /\ results = <<>>
    /\ file_groups = <<>>
    /\ index_queried = FALSE
    /\ cand_left = <<>>
    /\ page_tasks = <<>>
    /\ retry = NoRetry
    /\ session = [cur |-> 1,
                  flags |-> [s \in Sessions |-> "unset"],
                  form |-> [s \in Sessions |-> <<>>]]

NextAuth ==
    \/ \E s \in Sessions : SecureStartRun(s)
    \/ AuthCheck
    \/ \E submit \in BOOLEAN, u \in Usernames, pw \in Passwords : LoginPage(submit, u, pw)
    \/ \E pressed \in BOOLEAN : LogoutButton(pressed)
    \/ \E connected \in BOOLEAN : NetworkCheck(connected)
    \/ SecureCrash
    \/ BuildLocator
    \/ DirStatus
    \/ Scan
    \/ Load
    \/ Check
    \/ BatchSubmit
    \/ NoBatch
    \/ \E p \in PdfPaths : TaskStart(p)
    \/ \E p \in PdfPaths : TaskFinish(p)
    \/ \E p \in PdfPaths : ApplyTask(p)
    \/ BatchReturn
    \/ \E ok \in BOOLEAN : SaveOpen(ok)
    \/ \E ok \in BOOLEAN : SaveDump(ok)
    \/ IndexAfterBatch
    \/ IndexIfMissing
    \/ \E kw \in PoolKeywords : Search(kw)
    \/ ShowResults
    \/ Finish
    \/ ClearCache
    \/ RebuildIndex

SpecAuth == InitAuth /\ [][NextAuth]_vars

\* ------------------------------------------------------------ properties
\* The store a load would return now for the cache file.
Persisted == ReadCacheFile(cacheFile)

\* The (pages, recorded mtime) view of a store, per filename.
PagesAndMtimes(store) ==
    [n \in PdfNames |->
        [present |-> store.entry[n].present,
         pages |-> store.entry[n].pages,
         hasMtime |-> store.hasMeta /\ store.meta[n].present,
         mtime |-> CachedMtime(store, n)]]

\* The paths of the batch whose base name is n.
BatchPathsOf(n) == {p \in files_to_process : Basename(p) = n}

\* No external event happened since the batch was submitted.
FilesFixedDuringBatch == envLeft = batchEnv

\* C1: a document whose extraction failed as a whole is not added to the
\* cache store (no pages entry, no metadata entry), and the next pass selects
\* it for processing again.
C1_FailedDocumentNotCached ==
    /\ \A n \in PdfNames :
          pdf_cache.entry[n].present => pdf_cache.entry[n].srcBody # "BAD"
    /\ \A n \in PdfNames :
          (pdf_cache.hasMeta /\ pdf_cache.meta[n].present
             /\ pdf_cache.entry[n].srcPath = pdf_cache.meta[n].srcPath)
          => pdf_cache.entry[n].srcBody # "BAD"
    /\ pc = "decide" =>
          \A p \in SeqToSet(pdf_files) :
              (InStore(pdf_cache, Basename(p))
                 /\ pdf_cache.entry[Basename(p)].srcPath = p
                 /\ pdf_cache.entry[Basename(p)].srcBody = "BAD")
              => p \in files_to_process

\* C2: the mtime recorded in '_metadata' for a filename is the modification
\* time of the file version whose text was extracted, so a document that is
\* newer on disk than its cached text is reported stale by the next
\* check_for_updates.
C2_MtimeOfExtractedVersion ==
    /\ \A n \in PdfNames :
          (pdf_cache.entry[n].present /\ pdf_cache.hasMeta
             /\ pdf_cache.meta[n].present)
          => pdf_cache.meta[n].mtime = pdf_cache.entry[n].srcMtime
    /\ pc = "check" =>
          LET r == check_for_updates(pdf_files, pdf_cache)
          IN  r.ok =>
                \A p \in SeqToSet(pdf_files) :
                    (InStore(pdf_cache, Basename(p))
                       /\ pdf_cache.entry[Basename(p)].srcPath = p
                       /\ disk[p].mtime > pdf_cache.entry[Basename(p)].srcMtime)
                    => p \in SeqToSet(r.files)

\* C3 (as claimed): two batches over the same documents, the same file
\* contents and the same initial store end with the same pages and recorded
\* mtimes, whatever the completion order, shared base filenames included.
\* Without a crash every batch of the process starts from memo.store; without
\* an external event the files are those of the initial state; the cache
\* file holds the result of the earlier batch.
C3_DeterministicFinalCache ==
    (pc = "save" /\ crashes = 0 /\ envLeft = MaxEnv
       /\ cacheFile.kind = "ok" /\ cacheFile.batch = files_to_process)
    => PagesAndMtimes(pdf_cache) = PagesAndMtimes(cacheFile.store)

\* What a batch must leave for filename n when at most one path of the batch
\* has that base name: the extraction of that path and its modification time
\* (the old metadata when the time cannot be read), or the loaded entry.
ExpectedAfterBatch(n) ==
    LET old == PagesAndMtimes(memo.store)[n]
    IN  IF BatchPathsOf(n) = {} THEN old
        ELSE LET p == CHOOSE q \in BatchPathsOf(n) : TRUE
             IN  [present |-> TRUE,
                  pages |-> extract_pdf_text_pdfplumber(p),
                  hasMtime |-> disk[p].exists \/ old.hasMtime,
                  mtime |-> IF disk[p].exists THEN disk[p].mtime ELSE old.mtime]

\* C3 (amended): with the files unchanged during the batch, the pages and the
\* recorded mtime of every filename that is the base name of at most one path
\* of the batch are a function of the batch, the files and the loaded store,
\* the same for every completion order.
C3_DeterministicWithoutCollision ==
    (pc = "save" /\ FilesFixedDuringBatch)
    => \A n \in PdfNames :
          Cardinality(BatchPathsOf(n)) <= 1
          => PagesAndMtimes(pdf_cache)[n] = ExpectedAfterBatch(n)

C3_Witness ==
    /\ pc = "save"
    /\ FilesFixedDuringBatch
    /\ Cardinality(files_to_process) >= 2
    /\ \E n \in PdfNames :
          /\ Cardinality(BatchPathsOf(n)) = 1
          /\ pdf_cache.entry[n].pages # <<>>

\* C4: no cache entry is partially mutated: whenever the pages of a filename
\* are stored, its metadata was stored by the same step (same document, same
\* time); pages are never new while the metadata is old or absent.
C4_NoPartialEntry ==
    \A n \in PdfNames :
        pdf_cache.entry[n].present
        => /\ pdf_cache.hasMeta
           /\ pdf_cache.meta[n].present
           /\ pdf_cache.meta[n].srcPath = pdf_cache.entry[n].srcPath
           /\ pdf_cache.meta[n].processed_at = pdf_cache.entry[n].writtenAt

\* The keywords smart_search passes on: trimmed and not empty.
SearchKeys == {Strip(k) : k \in Keywords} \ {<<>>}

\* A per-page scan of the cached pages of n finds kw.
PageScanFinds(store, n, kw) == ScanPages(n, store.entry[n].pages, kw, 1) # <<>>

\* C5: whenever a search can run and the prefilter is available, every cached
\* document in which a per-page scan finds the keyword is among the
\* candidates of search_text_index.
C5_PrefilterSuperset ==
    pc = "ui" =>
        \A kw \in SearchKeys :
            search_text_index(kw).avail
            => \A n \in SeqToSet(pdf_cache.keys) :
                  PageScanFinds(pdf_cache, n, kw)
                  => n \in SeqToSet(search_text_index(kw).files)

\* C6: check_for_updates includes a document iff its live modification time
\* is strictly greater than the mtime recorded for its filename (0 when
\* there is none); the network edition does the same for every document
\* whose modification time can be read.
C6_StalenessTest ==
    pc = "check" =>
        LET r == check_for_updates(pdf_files, pdf_cache)
            rn == check_for_updates_network(pdf_files, pdf_cache)
            recorded(n) == IF pdf_cache.hasMeta /\ pdf_cache.meta[n].present
                           THEN pdf_cache.meta[n].mtime ELSE 0
        IN  /\ r.ok =>
                \A p \in SeqToSet(pdf_files) :
                    p \in SeqToSet(r.files)
                    <=> disk[p].mtime > recorded(Basename(p))
            /\ rn.ok
            /\ \A p \in SeqToSet(pdf_files) :
                    p \in SeqToSet(rn.files)
                    <=> (disk[p].exists /\ disk[p].mtime > recorded(Basename(p)))

\* A pass in which one cached document has a lower and another an equal
\* live modification time, and neither is reported.
C6_Witness ==
    /\ pc = "check"
    /\ check_for_updates(pdf_files, pdf_cache).ok
    /\ \E p \in SeqToSet(pdf_files) :
          /\ pdf_cache.meta[Basename(p)].present
          /\ disk[p].mtime < pdf_cache.meta[Basename(p)].mtime
          /\ p \notin SeqToSet(check_for_updates(pdf_files, pdf_cache).files)
    /\ \E p \in SeqToSet(pdf_files) :
          /\ pdf_cache.meta[Basename(p)].present
          /\ disk[p].mtime = pdf_cache.meta[Basename(p)].mtime
          /\ p \notin SeqToSet(check_for_updates(pdf_files, pdf_cache).files)

\* C7: save_cache is crash-safe: a crash leaves the files as they are, so at
\* every moment a load of the cache file must return the last completely
\* saved store (or, while save_cache runs, the complete new one).
C7_CrashSafeSave ==
    cacheFile.kind = "partial"
    => \/ Persisted = cacheFile.prev
       \/ pc = "dump" /\ Persisted = pdf_cache

\* C8: when search_text_index reports the prefilter unavailable, smart_search
\* scans every filename of the store: each cached page that contains the
\* keyword has a MatchRecord.
C8_FallbackScansAll ==
    (pc = "sidebar" /\ Strip(keyword) # <<>>
       /\ ~search_text_index(Strip(keyword)).avail)
    => \A n \in SeqToSet(pdf_cache.keys) :
          \A i \in 1..Len(pdf_cache.entry[n].pages) :
              Contains(Lower(pdf_cache.entry[n].pages[i]), Lower(Strip(keyword)))
              => \E j \in 1..Len(results) :
                    results[j].file = n /\ results[j].page_number = i

C8_Witness ==
    /\ pc = "sidebar"
    /\ Strip(keyword) # <<>>
    /\ ~search_text_index(Strip(keyword)).avail
    /\ results # <<>>

\* C9: an I/O failure on one directory or file never leaves
\* get_all_pdf_files, check_for_updates or process_pdfs_batch as an error.
C9_NoAbortOnIoFailure ==
    aborted \notin {"get_all_pdf_files", "check_for_updates", "process_pdfs_batch"}

\* The path of filename n in the last listable root that holds it.
LastRootPath(n) ==
    LET holders == {i \in 1..Len(PDF_DIRECTORIES) :
                      /\ dirs[PDF_DIRECTORIES[i]] = "ok"
                      /\ PathJoin(PDF_DIRECTORIES[i], n) \in Paths
                      /\ disk[PathJoin(PDF_DIRECTORIES[i], n)].exists}
    IN  IF holders = {} THEN NoPath
        ELSE PathJoin(PDF_DIRECTORIES[CHOOSE i \in holders :
                                         \A k \in holders : k <= i], n)

C11_PageFaultIsolation ==
    \A p \in PdfPaths :
        (tasks[p].st = "done" /\ tasks[p].readBody # "BAD")
        => LET raw == RawPages(tasks[p].readBody)
               got == tasks[p].pages
           IN  /\ Len(got) = Len(raw)
               /\ \A i \in 1..Len(raw) :
                     got[i] = IF raw[i].fault THEN <<>>
                              ELSE CollapseWs(Strip(raw[i].text))

\* A task returned the pages of a document with a page that raises and a page
\* that has text.
C11_Witness ==
    \E p \in PdfPaths :
        /\ tasks[p].st = "done"
        /\ \E i \in 1..Len(RawPages(tasks[p].readBody)) :
              RawPages(tasks[p].readBody)[i].fault
        /\ \E i \in 1..Len(tasks[p].pages) : tasks[p].pages[i] # <<>>

\* The 0-based positions at which kw occurs in text, compared without case.
OccurrencePositions(kw, text) ==
    {q \in 0..(Len(text) - Len(kw)) :
        Lower(SubSeq(text, q + 1, q + Len(kw))) = Lower(kw)}

\* The indices of the MatchRecords of page i of file n.
RecordsOf(n, i) ==
    {j \in 1..Len(results) : results[j].file = n /\ results[j].page_number = i}

\* C12: after a search, every page of every candidate file has as many
\* MatchRecords as there are positions at which the keyword occurs in the
\* page text, compared without case (none when it does not occur).
C12_RecordPerOccurrence ==
    (pc = "sidebar" /\ Strip(keyword) # <<>>)
    => \A n \in SeqToSet(Candidates(search_text_index(Strip(keyword)), pdf_cache)) :
          InStore(pdf_cache, n)
          => \A i \in 1..Len(pdf_cache.entry[n].pages) :
                Cardinality(RecordsOf(n, i))
                = Cardinality(OccurrencePositions(Strip(keyword),
                                                  pdf_cache.entry[n].pages[i]))

\* C13: the Locator of a run resolves exactly the filenames the directory
\* scan of that run found, each to a path the scan found, and every document
\* that the scan found and the batch extracted into the cache store resolves
\* to its own path.  (Stated for runs without any external change.)
C13_LocatorRefresh ==
    envLeft = MaxEnv
    => /\ pc = "load"
          => \A n \in PdfNames :
                /\ get_pdf_path(n) # NoPath
                   <=> \E p \in SeqToSet(pdf_files) : Basename(p) = n
                /\ get_pdf_path(n) # NoPath
                   => get_pdf_path(n) \in SeqToSet(pdf_files)
       /\ pc = "save"
          => \A n \in PdfNames :
                (pdf_cache.entry[n].present
                   /\ pdf_cache.entry[n].srcPath \in files_to_process)
                => get_pdf_path(n) = pdf_cache.entry[n].srcPath

\* C14: load_cached_data never raises: whatever the cache file holds, the run
\* goes on with the unpickled store, or with the empty store when there is
\* no file or unpickling fails.
C14_LoadNeverRaises == aborted # "load_cached_data"

\* The place of filename n in the candidate list of the last search.
CandidateIndex(n) ==
    LET cands == Candidates(search_text_index(Strip(keyword)), pdf_cache)
    IN  CHOOSE i \in 1..Len(cands) :
            cands[i] = n /\ \A k \in 1..(i - 1) : cands[k] # n

\* How many records up to the j-th are of the same page as the j-th.
RankOnPage(j) ==
    Cardinality({i \in 1..j : /\ results[i].file = results[j].file
                               /\ results[i].page_number = results[j].page_number})

\* C15: in the result of smart_search the records of different documents are
\* in candidate order, the records of one document in ascending page order,
\* and the r-th record of a page is the one of the r-th occurrence from the
\* left; for documents scanned sequentially and for documents scanned by the
\* page pool.
C15_RecordOrder ==
    (pc = "sidebar" /\ Strip(keyword) # <<>>)
    => /\ \A j, k \in 1..Len(results) :
             j < k
             => \/ CandidateIndex(results[j].file) < CandidateIndex(results[k].file)
                \/ /\ results[j].file = results[k].file
                   /\ results[j].page_number <= results[k].page_number
       /\ \A j \in 1..Len(results) :
             LET text == results[j].full_text
                 occ == FindIter(Lower(text), Lower(Strip(keyword)), 0)
             IN  /\ text = pdf_cache.entry[results[j].file].pages[results[j].page_number]
                 /\ RankOnPage(j) <= Len(occ)
                 /\ results[j].context
                    = ContextAt(Strip(keyword), text, occ[RankOnPage(j)])

\* A search found the keyword in two documents, one of them scanned by the
\* page pool with records on several pages and two records on one page, and
\* two occurrences on one page have different contexts.
C15_Witness ==
    /\ pc = "sidebar"
    /\ \E j, k \in 1..Len(results) : results[j].file # results[k].file
    /\ \E j, k, l \in 1..Len(results) :
          /\ Len(pdf_cache.entry[results[j].file].pages) > PARALLEL_PAGES
          /\ results[k].file = results[j].file
          /\ results[l].file = results[j].file
          /\ results[k].page_number # results[j].page_number
          /\ l # j
          /\ results[l].page_number = results[j].page_number
    /\ \E j, k \in 1..Len(results) :
          /\ results[j].file = results[k].file
          /\ results[j].page_number = results[k].page_number
          /\ results[j].context # results[k].context

\* s..e is the window of the occurrence of kw at position q of text (0-based,
\* e exclusive): it holds the occurrence, lies within the text, and each end
\* is the fixed-radius boundary moved outward to the nearest whitespace or
\* to the end of the text.
IsWindow(kw, text, q, s, e) ==
    LET fixedStart == Max(0, q - CONTEXT_CHARS)
        fixedEnd == Min(Len(text), q + Len(kw) + CONTEXT_CHARS)
    IN  /\ 0 <= s /\ s <= fixedStart /\ s <= q
        /\ fixedEnd <= e /\ e <= Len(text) /\ q + Len(kw) <= e
        /\ s = 0 \/ text[s + 1] \in WhiteSpace
        /\ e = Len(text) \/ text[e + 1] \in WhiteSpace
        /\ \A i \in (s + 1)..fixedStart : text[i + 1] \notin WhiteSpace
        /\ \A i \in fixedEnd..(e - 1) : text[i + 1] \notin WhiteSpace

\* C16: every search returns, and the context of every MatchRecord is the
\* highlighted, trimmed text of the window of an occurrence of the keyword
\* in the page text.
C16_ContextWindow ==
    /\ aborted # "smart_search"
    /\ (pc = "sidebar" /\ Strip(keyword) # <<>>)
       => \A j \in 1..Len(results) :
             LET text == results[j].full_text
                 kw == Strip(keyword)
             IN  \E q \in OccurrencePositions(kw, text) :
                     \E s \in 0..q : \E e \in (q + Len(kw))..Len(text) :
                         /\ IsWindow(kw, text, q, s, e)
                         /\ results[j].context
                            = Highlight(Strip(SubSeq(text, s + 1, e)), kw)

\* The place of the first record of file f among the records.
FirstIndex(f) ==
    CHOOSE j \in 1..Len(results) :
        results[j].file = f /\ \A k \in 1..(j - 1) : results[k].file # f

\* The number of records of file f.
CountOf(f) == Cardinality({j \in 1..Len(results) : results[j].file = f})

\* C17: the groups shown partition the records by file, each group in the
\* order of the records; the keys are in non-increasing order of group size,
\* files of equal size in the order of their first record; 5, 9 and 2
\* records of a.pdf, b.pdf and c.pdf give the keys b.pdf, a.pdf, c.pdf.
C17_GroupOrder ==
    (pc = "sidebar" /\ results # <<>>)
    => LET g == file_groups
       IN  /\ \A i, j \in 1..Len(g) : i # j => g[i].file # g[j].file
           /\ {g[i].file : i \in 1..Len(g)}
              = {results[j].file : j \in 1..Len(results)}
           /\ \A i \in 1..Len(g) :
                 g[i].items = SelectSeq(results, LAMBDA r : r.file = g[i].file)
           /\ \A i, j \in 1..Len(g) :
                 i < j
                 => /\ Len(g[i].items) >= Len(g[j].items)
                    /\ Len(g[i].items) = Len(g[j].items)
                       => FirstIndex(g[i].file) < FirstIndex(g[j].file)
           /\ (CountOf("a.pdf") = 5 /\ CountOf("b.pdf") = 9 /\ CountOf("c.pdf") = 2)
              => [i \in 1..Len(g) |-> g[i].file] = <<"b.pdf", "a.pdf", "c.pdf">>

\* Three groups are shown: the largest first, then two of equal size, the
\* first of which holds the first record of the input.
C17_Witness ==
    /\ pc = "sidebar"
    /\ Len(file_groups) = 3
    /\ Len(file_groups[1].items) > Len(file_groups[2].items)
    /\ Len(file_groups[2].items) = Len(file_groups[3].items)
    /\ results[1].file = file_groups[2].file

\* C18: a search whose keyword is empty or all whitespace returns no record,
\* does not ask the prefilter index and leaves the cache store, the cache
\* file and the index as they are.
C18_EmptyKeyword ==
    [][(pc = "ui" /\ pc' = "show" /\ Strip(keyword') = <<>>)
       => /\ results' = <<>>
          /\ smart_search(keyword', pdf_cache) = <<>>
          /\ ~index_queried'
          /\ pdf_cache' = pdf_cache
          /\ cacheFile' = cacheFile
          /\ indexDb' = indexDb]_vars

\* A search for a keyword of whitespace only, over a store with documents
\* and an index with rows, has ended.
C18_Witness ==
    /\ pc = "show"
    /\ keyword # <<>>
    /\ Strip(keyword) = <<>>
    /\ pdf_cache.keys # <<>>
    /\ indexDb.state = "ok"
    /\ indexDb.rows # <<>>
    /\ results = <<>>
    /\ ~index_queried

\* C19: while process_pdfs_batch runs, a step of a worker task (it starts,
\* it returns) leaves the cache store as it is, and every step that changes
\* the store is the orchestrator handling exactly one task that has
\* returned, changing the pages and metadata of that task's filename only.
C19_OrchestratorWrites ==
    [][(pc = "batch" /\ pc' = "batch")
       => /\ (\E p \in PdfPaths : /\ tasks'[p].st # tasks[p].st
                                  /\ tasks'[p].st \in {"running", "done"})
             => pdf_cache' = pdf_cache
          /\ pdf_cache' # pdf_cache
             => \E p \in PdfPaths :
                   /\ tasks[p].st = "done"
                   /\ tasks'[p].st = "applied"
                   /\ \A q \in PdfPaths \ {p} : tasks'[q] = tasks[q]
                   /\ \A n \in PdfNames \ {Basename(p)} :
                         /\ pdf_cache'.entry[n] = pdf_cache.entry[n]
                         /\ pdf_cache'.meta[n] = pdf_cache.meta[n]]_vars

\* The orchestrator has stored the pages of one task while another task is
\* running and a third has returned.
C19_Witness ==
    /\ pc = "batch"
    /\ \E p, q, r \in PdfPaths :
          /\ tasks[p].st = "applied"
          /\ pdf_cache.entry[Basename(p)].srcPath = p
          /\ tasks[q].st = "running"
          /\ tasks[r].st = "done"

\* A search in steps returns what smart_search returns.
StepwiseSearchAgrees ==
    (pc = "show" /\ cand_left = <<>> /\ page_tasks = <<>>)
    => results = (IF keyword = <<>> THEN <<>> ELSE smart_search(keyword, pdf_cache))

\* C20: at most MAX_WORKERS = min(CPU count, 12) extraction tasks are
\* running at any moment of a batch, which has exactly one task for every
\* document of the batch and none for any other; at most 4 page tasks are
\* running at any moment of a page scan.
C20_BoundedPools ==
    /\ MAX_WORKERS <= CpuCount /\ MAX_WORKERS <= 12
    /\ MAX_WORKERS = CpuCount \/ MAX_WORKERS = 12
    /\ Cardinality(Running) <= MAX_WORKERS
    /\ pc = "batch"
       => \A p \in PdfPaths : tasks[p].st # "none" <=> p \in files_to_process
    /\ Cardinality(RunningPages) <= 4
    /\ pc = "pagescan"
       => Len(page_tasks) = Len(pdf_cache.entry[Head(cand_left)].pages)

\* The page pool is full and pages are waiting, in a search over a store
\* that a batch of more documents than extraction workers has filled.
C20_Witness ==
    /\ pc = "pagescan"
    /\ Cardinality(RunningPages) = 4
    /\ \E i \in 1..Len(page_tasks) : page_tasks[i] = "queued"
    /\ \E i \in 1..Len(page_tasks) : page_tasks[i] = "done"
    /\ cacheFile.kind = "ok"
    /\ Cardinality(cacheFile.batch) >= MAX_WORKERS

\* The positions at which a step leaves create_text_index_db after the commit.
FillSites == {"mkindex_fill", "index_fill", "rebuild_fill"}

\* The rows of the index for filename n.
RowsOf(db, n) == {i \in 1..Len(db.rows) : db.rows[i].filename = n}

\* C21: when create_text_index_db(store) has committed, the index holds
\* exactly one record for every filename of the store and none for any other
\* filename, each with full_text the lower-cased pages joined by one space
\* and page_count the number of pages.
C21_RebuildReplaces ==
    [][(pc \in FillSites /\ pc' # pc /\ crashes' = crashes)
       => /\ indexDb'.state = "ok"
          /\ \A n \in PdfNames :
                Cardinality(RowsOf(indexDb', n))
                = IF InStore(pdf_cache, n) THEN 1 ELSE 0
          /\ \A i \in 1..Len(indexDb'.rows) :
                LET row == indexDb'.rows[i]
                IN  /\ InStore(pdf_cache, row.filename)
                    /\ row.full_text
                       = Lower(JoinPages(pdf_cache.entry[row.filename].pages))
                    /\ row.page_count = Len(pdf_cache.entry[row.filename].pages)]_vars

\* A rebuild has removed the record of a filename that the store it was
\* given does not hold, and has written records.
C21_Witness ==
    /\ indexDb.state = "ok"
    /\ indexDb.rows # <<>>
    /\ \E i \in 1..Len(indexDb.replaced) :
          RowsOf(indexDb, indexDb.replaced[i].filename) = {}

\* What a store holds: the filenames in order, their pages, and the
\* '_metadata' record.
StoreData(store) ==
    [keys |-> store.keys,
     pages |-> [n \in PdfNames |-> store.entry[n].pages],
     hasMeta |-> store.hasMeta,
     meta |-> [n \in PdfNames |->
                  [present |-> store.meta[n].present,
                   mtime |-> store.meta[n].mtime,
                   processed_at |-> store.meta[n].processed_at]]]

\* C22: when the cache file holds a non-empty store that save_cache wrote
\* successfully, the store load_cached_data returns is equal to it: the same
\* keys, the same pages, the same '_metadata' record.
C22_LoadReturnsSaved ==
    (pc = "check" /\ cacheFile.kind = "ok" /\ cacheFile.store.keys # <<>>)
    => StoreData(pdf_cache) = StoreData(cacheFile.store)

\* C23: a document goes to the page pool exactly when it has more than 20
\* pages, and what the pool scan adds to the results is what the sequential
\* scan of the same pages returns, as is what the sequential scan adds.
C23_ScanModes ==
    [][/\ (pc = "search" /\ cand_left # <<>> /\ crashes' = crashes
             /\ InStore(pdf_cache, Head(cand_left)))
          => LET n == Head(cand_left)
                 pages == pdf_cache.entry[n].pages
             IN  /\ pc' = "pagescan" <=> Len(pages) > 20
                 /\ pc' # "pagescan"
                    => results' = results \o ScanPages(n, pages, Strip(keyword), 1)
       /\ (pc = "pagescan" /\ pc' = "search")
          => LET n == Head(cand_left)
                 pages == pdf_cache.entry[n].pages
             IN  /\ Len(pages) > 20
                 /\ results' = results \o ScanPages(n, pages, Strip(keyword), 1)]_vars

\* A search has returned records of a document of exactly 20 pages and of a
\* document of more than 20 pages.
C23_Witness ==
    /\ pc = "show"
    /\ \E j, k \in 1..Len(results) :
          /\ Len(pdf_cache.entry[results[j].file].pages) = 20
          /\ Len(pdf_cache.entry[results[k].file].pages) > 20

\* The filenames of a store that are not base names of the batch, in order.
KeysOutsideBatch(store) == SelectSeq(store.keys, LAMBDA n : BatchPathsOf(n) = {})

\* C24: during and after process_pdfs_batch the pages entry and the metadata
\* entry of every filename that is not the base name of a document of the
\* batch are those of the store at the call, and with an empty batch the
\* whole store is (no '_metadata' record is added).
C24_BatchFrame ==
    pc \in {"batch", "save"}
    => /\ \A n \in PdfNames :
             BatchPathsOf(n) = {}
             => /\ pdf_cache.entry[n] = memo.store.entry[n]
                /\ pdf_cache.meta[n] = memo.store.meta[n]
       /\ KeysOutsideBatch(pdf_cache) = KeysOutsideBatch(memo.store)
       /\ files_to_process = {} => pdf_cache = memo.store

\* A batch has returned that replaced the pages of one cached filename and
\* left those of another.
C24_Witness ==
    /\ pc = "save"
    /\ \E n, k \in PdfNames :
          /\ BatchPathsOf(n) # {}
          /\ memo.store.entry[n].present
          /\ pdf_cache.entry[n].pages # memo.store.entry[n].pages
          /\ BatchPathsOf(k) = {}
          /\ pdf_cache.entry[k].present

\* What holds of a call of retry_network_operation at every moment.
RetryBounded ==
    LET n == Len(retry.log)
        w == Len(retry.waits)
    IN  /\ n <= 3
        /\ \A i \in 1..(n - 1) : retry.log[i].out = "oserror"
        /\ w >= 1 => retry.waits[1] = 2
        /\ \A i \in 2..w : retry.waits[i] = 2 * retry.waits[i - 1]
        /\ retry.pc = "call" => (w = n /\ n < 3)
        /\ retry.pc = "sleep" => (w = n /\ n >= 1 /\ retry.log[n].out = "oserror")
        /\ retry.pc = "returned"
           => /\ n >= 1 /\ w = n - 1
              /\ retry.log[n].out = "ok"
              /\ retry.result = retry.log[n].value
        /\ retry.pc = "raised"
           => /\ n >= 1 /\ w = n - 1
              /\ retry.error = <<retry.log[n].out, n>>
              /\ \/ retry.log[n].out = "other"
                 \/ retry.log[n].out = "oserror" /\ n = 3

\* The call has returned or raised.
RetryEnded == retry.pc \in {"returned", "raised"}

GateSites == {"idle", "auth", "login"}

\* The flag of the session whose run this is.
CurrentFlag == session.flags[session.cur]

\* C26: a run of a session whose flag is not true stays at the gate and the
\* login page: it scans, loads, extracts, indexes and searches nothing and
\* writes no file; a flag becomes true only in the login page of its own
\* session on credentials that verify, and, while the server process lives,
\* ceases to be true only by the logout button of its own session, which
\* sets it to false.
C26_AuthGate ==
    [][/\ (CurrentFlag # "yes" /\ crashes' = crashes)
          => /\ pc \in GateSites /\ pc' \in GateSites
             /\ pdf_files' = <<>> /\ pdf_cache' = EmptyStore
             /\ file_path_cache' = NoLocator /\ tasks' = NoTasks
             /\ results' = <<>> /\ ~index_queried'
             /\ UNCHANGED <<cacheFile, indexDb, memo>>
       /\ \A s \in Sessions :
             (session'.flags[s] = "yes" /\ session.flags[s] # "yes")
             => /\ pc = "login" /\ session.cur = s
                /\ verify_credentials(session'.form[s][1], session'.form[s][2])
       /\ \A s \in Sessions :
             (session.flags[s] = "yes" /\ session'.flags[s] # "yes"
                /\ crashes' = crashes)
             => /\ pc = "logout_button" /\ session.cur = s
                /\ session'.flags[s] = "no"]_vars

\* A session that had logged in and whose run saved the cache has logged
\* out and is shown the login page again, while the other session is still
\* logged in.
C26_Witness ==
    /\ pc = "login"
    /\ CurrentFlag = "no"
    /\ session.form[session.cur] # <<>>
    /\ verify_credentials(session.form[session.cur][1], session.form[session.cur][2])
    /\ cacheFile.kind = "ok"

\* The last indexing pass went through: the cache file holds the store that
\* a batch over every document now found left, and the index its rows.
PassCompleted ==
    /\ cacheFile.kind = "ok"
    /\ cacheFile.batch = SeqToSet(pdf_files)
    /\ indexDb.state = "ok"
    /\ indexDb.rows = IndexRows(cacheFile.store)

\* C27: when an indexing pass has gone through and no file has changed, the
\* next run of main finds nothing to process.
C27_IndexingConverges ==
    (pc = "decide" /\ envLeft = MaxEnv /\ PassCompleted)
    => files_to_process = {}

\* C28: every record smart_search returns carries a non-empty full_path, the
\* path of the document whose extracted text the store holds under the
\* record's filename.
C28_PathTextConsistency ==
    pc = "show"
    => \A i \in 1..Len(results) :
          /\ results[i].full_path # NoPath
          /\ results[i].full_path = pdf_cache.entry[results[i].file].srcPath

\* smart_search on its fallback path: every filename of the store is scanned.
FullScan(kw, store) ==
    IF Strip(kw) = <<>> THEN <<>>
    ELSE SearchFiles(AllFilenames(store), store, Strip(kw))

\* The index holds the rows of a rebuild from the store in memory.
IndexOfStore == indexDb.state = "ok" /\ indexDb.rows = IndexRows(pdf_cache)

HasWildcard(kw) == \E i \in 1..Len(kw) : kw[i] \in {"%", "_"}

\* C29: with the index rebuilt from the store that is searched, the records
\* found through the prefilter are the records of the full scan, for every
\* keyword, those with '%' or '_' included.
C29_PrefilterTransparent ==
    (pc = "show" /\ IndexOfStore)
    => SeqToSet(results) = SeqToSet(FullScan(keyword, pdf_cache))

\* A keyword with a wildcard character went through the prefilter, which
\* kept a document out of the scan, and records were found.
C29_Witness ==
    /\ pc = "show"
    /\ IndexOfStore
    /\ index_queried
    /\ HasWildcard(keyword)
    /\ results # <<>>
    /\ Len(search_text_index(Strip(keyword)).files) < Len(AllFilenames(pdf_cache))

\* C30: a save that completes keeps every filename the cache file held before
\* it was opened; indexing adds and replaces entries and never removes one.
C30_EntriesKept ==
    [][(pc = "dump" /\ cacheFile'.kind = "ok")
       => \A n \in SeqToSet(cacheFile.prev.keys) :
             n \in SeqToSet(cacheFile'.store.keys)]_vars

====
